---- MODULE Spec2Model ----
(***************************************************************************)
(* Model of the payroll processor (DynamicPayrollProcessor) and of its     *)
(* address book (EmailStore).                                              *)
(*                                                                         *)
(* Text is modelled as TLA+ strings; a character is a string of length 1.  *)
(* Numbers are fixed-point integers counting hundredths (1234.50 is        *)
(* 123450); the product of two such numbers is rescaled by Scale.          *)
(* U+2013 and U+2014 cannot be written in a TLA+ string: EN_DASH and       *)
(* EM_DASH stand for them.                                                 *)
(***************************************************************************)
EXTENDS Integers, Sequences, FiniteSets, TLC

VARIABLES periods,          \* self.periods
          employees,        \* self.employees
          merged_headers,   \* self.merged_headers
          store,            \* the email_addresses table of self.email_store
          last_call,        \* the step taken last: the method called, or "none"
          loaded_file,      \* the csv_filename of the last load_employee_data
          detect_result,    \* what the last detect_periods returned or raised
          load_result,      \* what the last load_employee_data returned
          encodings_tried,  \* the encodings the last load_employee_data opened
          payroll,          \* the last result of calculate_employee_payroll
          slip,             \* the figures of the last payslip rendered
          looked_up,        \* the last EmailStore.lookup: its arguments and result
          results,          \* what the last send_all_payslips returned
          mail_calls,       \* the calls of Mailer.send the last send_all_payslips made
          emails_csv,       \* the rows of emails.csv in the working directory
          batch,            \* the arguments and surroundings of the last send_all_payslips,
                            \* and the ledger, address book and emails.csv it began with
          number,           \* the last call of safe_float or parse_percent: its
                            \* arguments and what it returned
          gui,              \* the paging state of the preview of DynamicPayrollGUIGenerator
          run,              \* the last processing run: who made it, on which file,
                            \* and how far it went
          mailing           \* the threads started by _email_payslips, oldest first

\* what the methods of the processor that read a CSV or compute a payslip
\* leave alone
mail_vars == <<results, mail_calls, emails_csv, batch>>

\* what the processor and the address book leave alone
desk_vars == <<number, gui, run, mailing>>

outside_vars == <<looked_up, results, mail_calls, emails_csv, batch, number, gui,
                  run, mailing>>

vars == <<periods, employees, merged_headers, store, last_call, loaded_file,
          detect_result, load_result, encodings_tried, payroll, slip, looked_up,
          results, mail_calls, emails_csv, batch, number, gui, run, mailing>>

-----------------------------------------------------------------------------
(* Characters and strings                                                  *)

Scale == 100

EN_DASH == "~"

EM_DASH == "^"

UpperChars == "ABCDEFGHIJKLMNOPQRSTUVWXYZ"

LowerChars == "abcdefghijklmnopqrstuvwxyz"

DigitChars == "0123456789"

Char(s, i) == SubSeq(s, i, i)

CharsOf(s) == {Char(s, i) : i \in 1..Len(s)}

Digits == CharsOf(DigitChars)

UpperLetters == CharsOf(UpperChars)

LowerLetters == CharsOf(LowerChars)

Letters == UpperLetters \cup LowerLetters

Spaces == {" ", "\t"}

IsDigit(c) == c \in Digits

IsSpace(c) == c \in Spaces

DigitValues == [c \in Digits |-> (CHOOSE i \in 1..10 : Char(DigitChars, i) = c) - 1]

DigitVal(c) == DigitValues[c]

LowerOfUpper ==
    [c \in UpperLetters |-> Char(LowerChars, CHOOSE i \in 1..26 : Char(UpperChars, i) = c)]

RECURSIVE MapChars(_, _, _)
\* s from its i-th character on, with every character in the domain of the
\* table replaced by the table's string for it
MapChars(table, s, i) ==
    IF i > Len(s) THEN ""
    ELSE (IF Char(s, i) \in DOMAIN table THEN table[Char(s, i)] ELSE Char(s, i))
         \o MapChars(table, s, i + 1)

\* str.lower()
Lower(s) == MapChars(LowerOfUpper, s, 1)

RECURSIVE LStripFrom(_, _)
LStripFrom(s, i) ==
    IF i > Len(s) THEN Len(s) + 1
    ELSE IF IsSpace(Char(s, i)) THEN LStripFrom(s, i + 1) ELSE i

RECURSIVE RStripFrom(_, _)
RStripFrom(s, j) ==
    IF j < 1 THEN 0
    ELSE IF IsSpace(Char(s, j)) THEN RStripFrom(s, j - 1) ELSE j

\* str.strip()
Strip(s) == SubSeq(s, LStripFrom(s, 1), RStripFrom(s, Len(s)))

\* p in h
Contains(h, p) ==
    \E i \in 1..(Len(h) - Len(p) + 1) : SubSeq(h, i, i + Len(p) - 1) = p

RECURSIVE CollapseSpaces(_, _)
\* re.sub(r"\s+", " ", s)
CollapseSpaces(s, i) ==
    IF i > Len(s) THEN ""
    ELSE IF IsSpace(Char(s, i))
         THEN IF i > 1 /\ IsSpace(Char(s, i - 1))
              THEN CollapseSpaces(s, i + 1)
              ELSE " " \o CollapseSpaces(s, i + 1)
         ELSE Char(s, i) \o CollapseSpaces(s, i + 1)

DashToAscii == [c \in {EN_DASH, EM_DASH} |-> "-"]

_normalize_header_text(header) ==
    CollapseSpaces(Strip(MapChars(DashToAscii, header, 1)), 1)

-----------------------------------------------------------------------------
(* Numeric normalizer                                                      *)

None == [none |-> TRUE, val |-> 0]

Some(v) == [none |-> FALSE, val |-> v]

RECURSIVE KeepChars(_, _, _)
\* the characters of s from the i-th on that are in keep, in order
KeepChars(keep, s, i) ==
    IF i > Len(s) THEN ""
    ELSE (IF Char(s, i) \in keep THEN Char(s, i) ELSE "") \o KeepChars(keep, s, i + 1)

RECURSIVE DropChars(_, _, _)
\* the characters of s from the i-th on that are not in drop, in order
DropChars(drop, s, i) ==
    IF i > Len(s) THEN ""
    ELSE (IF Char(s, i) \in drop THEN "" ELSE Char(s, i)) \o DropChars(drop, s, i + 1)

\* the characters that re.sub(r"[^0-9.\-]", '', s) keeps
NumericChars == Digits \cup {".", "-"}

AllDigits(s) == \A i \in 1..Len(s) : IsDigit(Char(s, i))

RECURSIVE DigitsValue(_, _)
\* value of the decimal numeral s[1..n]
DigitsValue(s, n) ==
    IF n = 0 THEN 0 ELSE DigitsValue(s, n - 1) * 10 + DigitVal(Char(s, n))

\* hundredths denoted by the fraction digits f (digits beyond the second
\* are below the resolution of the fixed-point representation)
FractionValue(f) ==
    IF Len(f) = 0 THEN 0
    ELSE IF Len(f) = 1 THEN DigitVal(Char(f, 1)) * 10
    ELSE DigitsValue(f, 2)

\* float(s) for s made of digits, dots and minus signs: a record that says
\* whether float raises ValueError, and the value otherwise
PyFloat(s) ==
    LET neg  == Len(s) > 0 /\ Char(s, 1) = "-"
        body == IF neg THEN SubSeq(s, 2, Len(s)) ELSE s
        dots == {i \in 1..Len(body) : Char(body, i) = "."}
        dot  == IF dots = {} THEN Len(body) + 1 ELSE CHOOSE i \in dots : TRUE
        ip   == SubSeq(body, 1, dot - 1)
        fp   == SubSeq(body, dot + 1, Len(body))
        ok   == /\ Cardinality(dots) <= 1
                /\ AllDigits(ip) /\ AllDigits(fp)
                /\ Len(ip) + Len(fp) > 0
        mag  == DigitsValue(ip, Len(ip)) * Scale + FractionValue(fp)
    IN  IF ok THEN Some(IF neg THEN 0 - mag ELSE mag) ELSE None

\* float(u), or None for the texts safe_float does not hand to float
FloatOrNone(u) == IF u \in {"", ".", "-"} THEN None ELSE PyFloat(u)

\* safe_float with default=None on the stripped text t
ParseStripped(t) ==
    IF t = "" \/ t \in {"-", EM_DASH, EN_DASH} THEN None
    ELSE FloatOrNone(KeepChars(NumericChars, DropChars({",", "$"}, t, 1), 1))

\* safe_float with default=None: None stands for "the default is returned"
ParseNumber(s) == ParseStripped(Strip(s))

\* r when it is a number, default when it is None
OrDefault(r, default) == IF r.none THEN default ELSE r.val

safe_float(s, default) == OrDefault(ParseNumber(s), default)

\* val / 100.0, or None when safe_float returned None
PercentOf(val) == IF val.none THEN None ELSE Some(val.val \div Scale)

\* parse_percent with default=None on the stripped text t
ParsePercentStripped(t) ==
    IF t = "" \/ t \in {"-", EM_DASH, EN_DASH} THEN None
    ELSE PercentOf(ParseNumber(Strip(DropChars({"%"}, t, 1))))

\* parse_percent with default=None
ParsePercent(s) == ParsePercentStripped(Strip(s))

\* a parse_percent that divides the default by 100 as well
parse_percent_scaling_default(s, default) ==
    OrDefault(ParsePercent(s), default \div Scale)

parse_percent(s, default) == OrDefault(ParsePercent(s), default)

\* a * b for fixed-point a and b
Mul(a, b) == (a * b) \div Scale

Abs(a) == IF a < 0 THEN 0 - a ELSE a

-----------------------------------------------------------------------------
(* Period-header pattern                                                   *)

RECURSIVE RunEnd(_, _, _)
\* first index at or after i whose character is not in class
RunEnd(class, h, i) ==
    IF i <= Len(h) /\ Char(h, i) \in class THEN RunEnd(class, h, i + 1) ELSE i

IsDash(c) == c \in {"-", EN_DASH, EM_DASH}

\* PERIOD_HEADER_REGEX anchored at i: index of the last matched character,
\* 0 when there is no match starting at i
PeriodMatchEnd(h, i) ==
    LET \* the end day, from f: one or two digits
        EndDay(f, g) == IF g - f >= 1 THEN (IF g - f > 2 THEN f + 2 ELSE g) - 1 ELSE 0
        \* the dash at e, and the spaces after it
        Dash(e) ==
            LET AfterDash(f) == EndDay(f, RunEnd(Digits, h, f))
            IN  IF e <= Len(h) /\ IsDash(Char(h, e))
                THEN AfterDash(RunEnd(Spaces, h, e + 1)) ELSE 0
        \* the start day, from c: at most two digits, and the spaces after it
        StartDay(c) ==
            LET AfterDay(d) == IF d - c <= 2 THEN Dash(RunEnd(Spaces, h, d)) ELSE 0
            IN  AfterDay(RunEnd(Digits, h, c))
        \* the month name, to a: three letters or more, a dot, spaces
        Month(a) ==
            IF a - i >= 3
            THEN StartDay(RunEnd(Spaces, h, IF a <= Len(h) /\ Char(h, a) = "." THEN a + 1 ELSE a))
            ELSE 0
    IN  Month(RunEnd(Letters, h, i))

RECURSIVE PeriodSearchFrom(_, _)
\* the leftmost match that starts at i or later
PeriodSearchFrom(h, i) ==
    LET Matched(end) == IF end > 0 THEN SubSeq(h, i, end) ELSE PeriodSearchFrom(h, i + 1)
    IN  IF i > Len(h) THEN "" ELSE Matched(PeriodMatchEnd(h, i))

\* PERIOD_HEADER_REGEX.search(h): the matched text, "" when nothing matches
PeriodSearch(h) == PeriodSearchFrom(h, 1)

_is_period_header(header) ==
    LET cleaned == _normalize_header_text(header)
    IN  cleaned # "" /\ PeriodSearch(cleaned) # ""

-----------------------------------------------------------------------------
(* Header reconciler                                                       *)

encodings_to_try == <<"utf-8", "latin-1", "cp1252", "iso-8859-1">>

\* open(...) and list(csv.reader(fh)) under one encoding: TRUE when the rows
\* are read, FALSE for a UnicodeDecodeError.  latin-1 decodes every byte
\* sequence, so the encodings after it meet nothing it has not decoded.
Decodes(file, encoding) == encoding = "utf-8" => file.utf8

RECURSIVE JoinCells(_, _)
\* ' '.join([c.lower() for c in row if c])
JoinCells(row, i) ==
    IF i > Len(row) THEN ""
    ELSE LET rest == JoinCells(row, i + 1)
         IN  IF row[i] = "" THEN rest
             ELSE IF \A j \in (i + 1)..Len(row) : row[j] = "" THEN Lower(row[i])
             ELSE Lower(row[i]) \o " " \o rest

HasPerHour(row) == Contains(JoinCells(row, 1), "per hour")

\* the header search of detect_periods: the 0-based index of the first row
\* that mentions 'per hour'; otherwise the fallback pass, which refers to the
\* undefined name period_pattern as soon as it meets a non-empty cell
DetectHeaderRow(rows) ==
    LET hits == {i \in 1..Len(rows) : HasPerHour(rows[i])}
    IN  IF hits # {}
        THEN [kind |-> "found", idx |-> (CHOOSE i \in hits : \A j \in hits : i <= j) - 1]
        ELSE IF \E i \in 1..Len(rows) : \E j \in 1..Len(rows[i]) : rows[i][j] # ""
        THEN [kind |-> "NameError", idx |-> 0]
        ELSE [kind |-> "none", idx |-> 0]

\* the header search of load_employee_data: as above, and with no row at all
\* the test after the fallback loop reads the unbound period_matches
LoadHeaderRow(rows) ==
    LET hits == {i \in 1..Len(rows) : HasPerHour(rows[i])}
    IN  IF hits # {}
        THEN [kind |-> "found", idx |-> (CHOOSE i \in hits : \A j \in hits : i <= j) - 1]
        ELSE IF \E i \in 1..Len(rows) : \E j \in 1..Len(rows[i]) : rows[i][j] # ""
        THEN [kind |-> "NameError", idx |-> 0]
        ELSE IF Len(rows) = 0
        THEN [kind |-> "NameError", idx |-> 0]
        ELSE [kind |-> "none", idx |-> 0]

Max(a, b) == IF a >= b THEN a ELSE b

\* f as a tuple, for a function f on 1..n (a list built by a comprehension or
\* by appending in a loop)
Tuple(f) == <<>> \o f

\* the merged two-line header: row header_row_idx joined cell by cell with
\* the row above it
MergeHeaders(rows, header_row_idx) ==
    LET prev_row == IF header_row_idx > 0 THEN rows[header_row_idx] ELSE <<>>
        cur_row  == rows[header_row_idx + 1]
        Part(row, i) == IF i <= Len(row) /\ row[i] # "" THEN <<Strip(row[i])>> ELSE <<>>
        Joined(parts) == IF Len(parts) = 2 THEN parts[1] \o " " \o parts[2]
                         ELSE IF Len(parts) = 1 THEN parts[1] ELSE ""
    IN  Tuple([i \in 1..Max(Len(prev_row), Len(cur_row)) |->
                   _normalize_header_text(Joined(Part(prev_row, i) \o Part(cur_row, i)))])

\* re.sub(r'[^a-z0-9]+', '', (s or '').lower())
_norm(s) == KeepChars(Digits \cup LowerLetters, Lower(s), 1)

\* d[key] = value on an insertion-ordered dict kept as a sequence of items
DictSet(items, key, value) ==
    IF \E n \in 1..Len(items) : items[n].key = key
    THEN Tuple([n \in 1..Len(items) |->
                    IF items[n].key = key THEN [key |-> key, value |-> value]
                    ELSE items[n]])
    ELSE Append(items, [key |-> key, value |-> value])

RECURSIVE DictItems(_, _)
\* items() of the dict {key: i for i, key in enumerate(keys)}, built from
\* the first n keys
DictItems(keys, n) ==
    IF n = 0 THEN <<>> ELSE DictSet(DictItems(keys, n - 1), keys[n], n - 1)

NoCol == 0 - 1

\* next((idx for key, idx in items if ...), None), hits being the positions
\* of the items whose key passes the test
FirstItem(items, hits) ==
    IF hits = {} THEN NoCol
    ELSE items[CHOOSE n \in hits : \A m \in hits : n <= m].value

header_map_norm(headers) ==
    DictItems(Tuple([i \in 1..Len(headers) |-> _norm(headers[i])]), Len(headers))

header_map_lower(headers) ==
    DictItems(Tuple([i \in 1..Len(headers) |-> Lower(headers[i])]), Len(headers))

\* find_col(*parts), given the header_map_norm it closes over
find_col(map_norm, parts) ==
    FirstItem(map_norm,
              {n \in 1..Len(map_norm) :
                   \A k \in 1..Len(parts) : Contains(map_norm[n].key, _norm(parts[k]))})

\* a or b on column indices (None and 0 are both falsy)
OrCol(a, b) == IF a # NoCol /\ a # 0 THEN a ELSE b

-----------------------------------------------------------------------------
(* Address book (EmailStore).  The table is kept as a sequence ordered by  *)
(* last_updated, oldest first; NULL is the empty string.                   *)

\* _clean: stripped text, None ("") when nothing is left
_clean(value) == Strip(value)

_clean_lower(value) == Lower(_clean(value))

_clean_email(value) == Lower(_clean(value))

\* index in the table of the record whose column col equals value, 0 if none
FindRecord(table, col, value) ==
    LET hits == {n \in 1..Len(table) : table[n][col] = value}
    IN  IF value = "" \/ hits = {} THEN 0 ELSE CHOOSE n \in hits : TRUE

RemoveAt(seq, n) == SubSeq(seq, 1, n - 1) \o SubSeq(seq, n + 1, Len(seq))

Coalesce(new, old) == IF new # "" THEN new ELSE old

NextId(table) ==
    LET ids == {table[n].id : n \in 1..Len(table)}
    IN  IF ids = {} THEN 1 ELSE (CHOOSE i \in ids : \A j \in ids : i >= j) + 1

\* EmailStore._upsert: the table afterwards.  An UPDATE that would break a
\* UNIQUE constraint raises IntegrityError before the commit, which leaves
\* the table as it was.
_upsert(table, seq, account_no, name_key, display_name, email) ==
    LET fresh == [id |-> NextId(table), seq |-> seq, account_no |-> account_no,
                  name_key |-> name_key, display_name |-> display_name,
                  email |-> email]
        blank == [id |-> NextId(table), seq |-> "", account_no |-> "",
                  name_key |-> "",
                  display_name |-> Coalesce(display_name, email),
                  email |-> email]
        Clash(others, updated) ==
            \E n \in 1..Len(others) :
                \/ updated.seq # "" /\ others[n].seq = updated.seq
                \/ updated.account_no # "" /\ others[n].account_no = updated.account_no
                \/ updated.name_key # "" /\ others[n].name_key = updated.name_key
        Write(others, updated) ==
            IF Clash(others, updated) THEN table ELSE Append(others, updated)
        Update(old, others) ==
            Write(others, [id |-> old.id,
                           seq |-> Coalesce(seq, old.seq),
                           account_no |-> Coalesce(account_no, old.account_no),
                           name_key |-> Coalesce(name_key, old.name_key),
                           display_name |-> Coalesce(display_name, old.display_name),
                           email |-> email])
        Found(found) ==
            IF found # 0 THEN Update(table[found], RemoveAt(table, found))
            ELSE IF seq # "" \/ account_no # "" \/ name_key # "" THEN Update(fresh, table)
            ELSE Update(blank, table)
        Lookup(by_seq, by_acct, by_name) ==
            Found(IF by_seq # 0 THEN by_seq ELSE IF by_acct # 0 THEN by_acct ELSE by_name)
    IN  IF email = "" THEN table
        ELSE Lookup(FindRecord(table, "seq", seq),
                    FindRecord(table, "account_no", account_no),
                    FindRecord(table, "name_key", name_key))

\* EmailStore.remember_from_employee
remember_from_employee(table, employee, email) ==
    IF _clean_email(email) = "" THEN table
    ELSE _upsert(table, _clean(employee.seq), _clean(employee.account_no),
                 _clean_lower(employee.name), _clean(employee.name),
                 _clean_email(email))

\* EmailStore.lookup: the email found, "" for None
lookup(table, seq, account_no, name) ==
    LET Found(by_seq, by_acct, by_name) ==
            IF by_seq # 0 THEN table[by_seq].email
            ELSE IF by_acct # 0 THEN table[by_acct].email
            ELSE IF by_name # 0 THEN table[by_name].email
            ELSE ""
    IN  Found(FindRecord(table, "seq", _clean(seq)),
              FindRecord(table, "account_no", _clean(account_no)),
              FindRecord(table, "name_key", _clean_lower(name)))

\* a fill that writes the email it looks up over the one the entry carries
apply_to_employees_overwriting(table, emps) ==
    LET Applied(emp, email) ==
            IF email # "" THEN [emp EXCEPT !.email = email] ELSE emp
    IN  Tuple([n \in 1..Len(emps) |->
                   Applied(emps[n], lookup(table, emps[n].seq, emps[n].account_no,
                                           emps[n].name))])

\* EmailStore.apply_to_employees: the employees afterwards
apply_to_employees(table, emps) ==
    LET Applied(emp, email) ==
            IF _clean_email(emp.email) # "" THEN emp
            ELSE IF email # "" THEN [emp EXCEPT !.email = email]
            ELSE emp
    IN  Tuple([n \in 1..Len(emps) |->
                   Applied(emps[n], lookup(table, emps[n].seq, emps[n].account_no,
                                           emps[n].name))])

-----------------------------------------------------------------------------
(* Employee ledger builder                                                 *)

\* row[idx] for a 0-based column index
Cell(row, idx) == row[idx + 1]

\* idx is not None and idx < len(row) and row[idx].strip()
HasValue(row, idx) == idx # NoCol /\ idx < Len(row) /\ Strip(Cell(row, idx)) # ""

\* str.isdigit() on the cell's stripped text
IsDigitText(s) == s # "" /\ AllDigits(s)

\* the column indices that load_employee_data looks up by keyword
ColumnRoles(headers) ==
    LET Holding(map_lower, words) ==
            FirstItem(map_lower,
                      {n \in 1..Len(map_lower) :
                           \E k \in 1..Len(words) : Contains(map_lower[n].key, words[k])})
        Roles(map_norm, seq_idx, name_idx, rate_idx) ==
            [idx_amt_earned |-> find_col(map_norm, <<"amount", "earned">>),
             idx_net_amt    |-> find_col(map_norm, <<"net", "amount", "earned">>),
             idx_tax_rate   |-> find_col(map_norm, <<"w", "tax", "rate">>),
             idx_wh_tax     |-> find_col(map_norm, <<"holding", "tax">>),
             idx_p_rate     |-> find_col(map_norm, <<"p", "tax", "rate">>),
             idx_percent    |-> find_col(map_norm, <<"percent", "tax">>),
             idx_total_ded  |-> find_col(map_norm, <<"total", "tax", "deduct">>),
             idx_net_recv   |-> find_col(map_norm, <<"net", "amount", "received">>),
             idx_adj_hours  |-> find_col(map_norm, <<"adjust", "hour">>),
             idx_adj_amount |-> OrCol(find_col(map_norm, <<"adjust", "amount">>),
                                OrCol(find_col(map_norm, <<"adjust", "add", "tax">>),
                                OrCol(find_col(map_norm, <<"addl", "tax">>),
                                      find_col(map_norm, <<"adjustment", "tax">>)))),
             idx_email          |-> find_col(map_norm, <<"email">>),
             idx_work_email     |-> find_col(map_norm, <<"work", "email">>),
             idx_personal_email |-> find_col(map_norm, <<"personal", "email">>),
             seq_idx  |-> IF seq_idx = NoCol THEN 0 ELSE seq_idx,
             name_idx |-> IF name_idx = NoCol THEN (IF Len(headers) > 2 THEN 2 ELSE 1)
                          ELSE name_idx,
             rate_idx |-> rate_idx]
        Lowered(map_lower) ==
            Roles(header_map_norm(headers),
                  Holding(map_lower, <<"seq", "sequence">>),
                  Holding(map_lower, <<"name">>),
                  Holding(map_lower, <<"per hour", "hour", "rate">>))
    IN  Lowered(header_map_lower(headers))

\* the employee dict as first built for an accepted row
NewEmployee(row, cols) ==
    [seq            |-> Strip(Cell(row, cols.seq_idx)),
     account_no     |-> IF Len(row) > 1 THEN Strip(Cell(row, 1)) ELSE "",
     name           |-> IF cols.name_idx < Len(row)
                        THEN Strip(Cell(row, cols.name_idx)) ELSE "",
     hourly_rate    |-> IF cols.rate_idx # NoCol /\ cols.rate_idx < Len(row)
                        THEN safe_float(Cell(row, cols.rate_idx), 0) ELSE 0,
     email          |-> IF HasValue(row, cols.idx_email)
                        THEN Strip(Cell(row, cols.idx_email)) ELSE "",
     work_email     |-> IF HasValue(row, cols.idx_work_email)
                        THEN Strip(Cell(row, cols.idx_work_email)) ELSE "",
     personal_email |-> IF HasValue(row, cols.idx_personal_email)
                        THEN Strip(Cell(row, cols.idx_personal_email)) ELSE "",
     periods              |-> <<>>,
     total_gross          |-> 0,
     tax_rate             |-> 0,
     withholding_rate     |-> 0,
     withholding_amount   |-> 0,
     p_tax_rate           |-> 0,
     percent_tax          |-> 0,
     adjustment_hours     |-> 0,
     adjustment_amount    |-> 0,
     total_tax_deductions |-> 0,
     net_amount_received  |-> 0,
     net_amount_earned    |-> None]

\* what the block from "robust summary/tax mapping" on reads off the row
\* before it writes to the employee e0
SummaryCells(e0, row, cols) ==
    [adjustment_hours |->
         IF HasValue(row, cols.idx_adj_hours)
         THEN safe_float(Cell(row, cols.idx_adj_hours), 0)
         ELSE e0.adjustment_hours,
     adj_amount_from_csv |->
         IF HasValue(row, cols.idx_adj_amount)
         THEN Some(safe_float(Cell(row, cols.idx_adj_amount), 0))
         ELSE None,
     total_gross |->
         IF HasValue(row, cols.idx_amt_earned)
         THEN safe_float(Cell(row, cols.idx_amt_earned), e0.total_gross)
         ELSE e0.total_gross,
     has_net |-> HasValue(row, cols.idx_net_amt),
     net_amt_from_csv |->
         IF HasValue(row, cols.idx_net_amt)
         THEN ParseNumber(Cell(row, cols.idx_net_amt)) ELSE None,
     raw_wh |->
         IF HasValue(row, cols.idx_wh_tax)
         THEN Strip(Cell(row, cols.idx_wh_tax)) ELSE ""]

\* employee['adjustment_amount'] as the block settles it from the cells r;
\* 1e-6 is below one hundredth, and Scale \div 1000000 is that bound in hundredths
AdjustmentAmount(e0, r) ==
    LET calc_adj == Mul(r.adjustment_hours, e0.hourly_rate)
        diff     == r.total_gross - r.net_amt_from_csv.val
    IN  IF /\ (r.adj_amount_from_csv.none \/ r.adj_amount_from_csv.val = 0)
           /\ ~r.net_amt_from_csv.none
           /\ Abs(diff) > Scale \div 1000000
        THEN diff
        ELSE IF ~r.adj_amount_from_csv.none THEN r.adj_amount_from_csv.val
        ELSE IF calc_adj # 0 THEN calc_adj
        ELSE 0

\* the employee e0 with the summary and tax fields of the row written to it
SummaryMapped(e0, r, row, cols) ==
    [e0 EXCEPT
       !.adjustment_hours  = r.adjustment_hours,
       !.total_gross       = r.total_gross,
       !.net_amount_earned = IF r.has_net THEN r.net_amt_from_csv ELSE @,
       !.adjustment_amount = AdjustmentAmount(e0, r),
       !.tax_rate =
           IF HasValue(row, cols.idx_tax_rate)
           THEN parse_percent(Cell(row, cols.idx_tax_rate), @) ELSE @,
       !.withholding_rate =
           IF r.raw_wh # "" /\ Contains(r.raw_wh, "%")
           THEN parse_percent(r.raw_wh, @) ELSE @,
       !.withholding_amount =
           IF r.raw_wh # "" /\ ~Contains(r.raw_wh, "%")
           THEN safe_float(r.raw_wh, @) ELSE @,
       !.p_tax_rate =
           IF HasValue(row, cols.idx_p_rate)
           THEN parse_percent(Cell(row, cols.idx_p_rate), @) ELSE @,
       !.percent_tax =
           IF HasValue(row, cols.idx_percent)
           THEN safe_float(Cell(row, cols.idx_percent), @) ELSE @,
       !.total_tax_deductions =
           IF HasValue(row, cols.idx_total_ded)
           THEN safe_float(Cell(row, cols.idx_total_ded), @) ELSE @,
       !.net_amount_received =
           IF HasValue(row, cols.idx_net_recv)
           THEN safe_float(Cell(row, cols.idx_net_recv), @) ELSE @]

\* next((val for val in (email, work_email, personal_email) if val), None)
PrimaryEmail(e) ==
    IF e.email # "" THEN e.email
    ELSE IF e.work_email # "" THEN e.work_email
    ELSE e.personal_email

\* "if primary_email": the employee afterwards, and the calls made to
\* remember_employee_email so far
RememberPrimary(calls, e, primary_email) ==
    IF primary_email # ""
    THEN [employee |-> [e EXCEPT !.email = primary_email],
          calls    |-> Append(calls, [employee |-> [e EXCEPT !.email = primary_email],
                                      email |-> primary_email])]
    ELSE [employee |-> e, calls |-> calls]

\* the primary email of the mapped employee e, settled and remembered
WithPrimaryEmail(calls, e) == RememberPrimary(calls, e, PrimaryEmail(e))

\* the block from "robust summary/tax mapping" to the primary email, which
\* the source indents under the period loop's "if col_idx < len(row)": the
\* employee afterwards, and the calls made to remember_employee_email so far
SummaryFields(st, row, cols) ==
    WithPrimaryEmail(st.calls,
                     SummaryMapped(st.employee,
                                   SummaryCells(st.employee, row, cols), row, cols))

\* one iteration of "for period in self.periods"
PeriodStep(st, period, row, headers, cols) ==
    LET col_idx == period.column_index
        e0      == st.employee
        rate    == e0.hourly_rate
        display_name == period.display_name
        Stored(canonical_name, period_data) ==
            IF display_name # "" /\ display_name # canonical_name
            THEN DictSet(DictSet(e0.periods, canonical_name, period_data),
                         display_name, period_data)
            ELSE DictSet(e0.periods, canonical_name, period_data)
        Counted(raw_val, hours, amount) ==
            [e0 EXCEPT
               !.periods = Stored(IF period.name # "" THEN period.name
                                  ELSE _normalize_header_text(
                                           IF col_idx < Len(headers)
                                           THEN Cell(headers, col_idx) ELSE ""),
                                  [hours |-> hours, amount |-> amount, raw |-> raw_val]),
               !.total_gross = @ + amount]
        Worked(raw_val, hours) ==
            Counted(raw_val, hours, IF rate # 0 THEN Mul(hours, rate) ELSE 0)
        Read(raw_val) == Worked(raw_val, safe_float(raw_val, 0))
    IN  IF col_idx < Len(row)
        THEN SummaryFields([employee |-> Read(Strip(Cell(row, col_idx))),
                            calls |-> st.calls], row, cols)
        ELSE st

RECURSIVE PeriodLoop(_, _, _, _, _, _)
PeriodLoop(st, pds, k, row, headers, cols) ==
    IF k > Len(pds) THEN st
    ELSE PeriodLoop(PeriodStep(st, pds[k], row, headers, cols),
                    pds, k + 1, row, headers, cols)

\* a gate that asks for a sequence cell and does not look at what it holds
AcceptsRow_any_seq(row, cols) ==
    /\ Len(row) > 0
    /\ cols.seq_idx < Len(row)

\* the row-validity gate of load_employee_data
AcceptsRow(row, cols) ==
    /\ Len(row) > 0
    /\ cols.seq_idx < Len(row)
    /\ IsDigitText(Strip(Cell(row, cols.seq_idx)))

\* self.employees.append(employee) for the employee that st carries
Appended(acc, st) ==
    [emps |-> Append(acc.emps, st.employee), calls |-> st.calls]

\* one iteration of "for row in data_rows"
RowStep(acc, row, pds, headers, cols) ==
    IF AcceptsRow(row, cols)
    THEN Appended(acc, PeriodLoop([employee |-> NewEmployee(row, cols),
                                   calls |-> acc.calls],
                                  pds, 1, row, headers, cols))
    ELSE acc

RECURSIVE RowLoop(_, _, _, _, _, _)
\* "for row in data_rows" from row k on: self.employees afterwards, and the
\* calls made to remember_employee_email, in order
RowLoop(acc, data_rows, k, pds, headers, cols) ==
    IF k > Len(data_rows) THEN acc
    ELSE RowLoop(RowStep(acc, data_rows[k], pds, headers, cols),
                 data_rows, k + 1, pds, headers, cols)

RECURSIVE Remember(_, _, _)
\* the address book after the first n calls to remember_employee_email
Remember(table, calls, n) ==
    IF n = 0 THEN table
    ELSE remember_from_employee(Remember(table, calls, n - 1),
                                calls[n].employee, calls[n].email)

-----------------------------------------------------------------------------
(* The CSV files the processor is run on                                   *)

MaxDataRows == 2

SeqsUpTo(S, n) == UNION {[1..k -> S] : k \in 0..n}

\* one header line: sequence, account, name, rate, two periods, gross
PlainHead ==
    << <<"Seq", "Acct", "Name", "Rate per hour", "Jan 1-15", "Jan 16-31", "AMOUNT EARNED">> >>

PlainRows ==
    { <<"1", "A-1", "Ann", "20", "10", "5", "">>,
      <<"2", "A-2", "Bob", "20", "10", "5", "250">>,
      <<"", "", "TOTAL", "", "20", "10", "550">> }

\* a row that ends before the second period column
ShortRows == { <<"4", "A-4", "Dee", "$20.00", "8">> }

\* the rows of a file that is not valid UTF-8
Latin1Rows == { <<"5", "A-5", "Inigo", "20", "10", "5", "">> }

\* a title line above the header, and no period column
NoPeriodHead ==
    << <<"PAYROLL">>, <<"Seq", "Acct", "Name", "Rate per hour", "AMOUNT EARNED">> >>

NoPeriodRows == { <<"1", "A-1", "Ann", "20", "250">> }

\* NET AMOUNT EARNED without an AMOUNT EARNED column
NetOnlyHead ==
    << <<"Seq", "Acct", "Name", "Rate per hour", "Jan 1-15", "Jan 16-31", "NET AMOUNT EARNED">> >>

NetOnlyRows == { <<"1", "A-1", "Ann", "20", "10", "5", "250">> }

\* NET AMOUNT EARNED to the left of AMOUNT EARNED
NetFirstHead ==
    << <<"Seq", "Acct", "Name", "Rate per hour", "Jan 1-15", "NET AMOUNT EARNED", "AMOUNT EARNED">> >>

NetFirstRows == { <<"1", "A-1", "Ann", "20", "10", "180", "210">> }

\* a two-line header with the tax columns
TaxHead ==
    << <<"Seq.", "Acct", "NAME", "RATE", "", "", "", "", "", "", "", "">>,
       <<"", "", "", "per hour", "Jan 1-15", "Jan 16-31", "AMOUNT EARNED",
         "ADJUSTMENT AMOUNT", "W/ TAX RATE", "W/HOLDING TAX", "P-TAX RATE",
         "PERCENT. TAX">> >>

TaxRows ==
    { <<"1", "A-1", "Ann", "20", "30", "20", "", "100", "10%", "5%", "2%", "">>,
      <<"2", "A-2", "Bob", "20", "30", "20", "", "", "", "75.05", "", "20">>,
      <<"3", "A-3", "Cy", "1", "1", "", "", "", "", "5%", "", "">> }

\* no row mentions 'per hour'
NoPerHourHead == << <<"Seq", "Name", "Jan 1-15", "Jan 16-31">> >>

NoPerHourRows == { <<"1", "Ann", "10", "5">> }

\* the sequence number in the third column
SeqThirdHead == << <<"Name", "Acct", "Seq", "Rate per hour", "Jan 1-15">> >>

SeqThirdRows ==
    { <<"Zed", "A-9">>,
      <<"Bo", "A-2", "n/a", "20", "10">>,
      <<"Ann", "A-1", " 1 ", "20", "10">> }

\* an email column
EmailHead == << <<"Seq", "Acct", "Name", "Rate per hour", "Jan 1-15", "Email">> >>

EmailRows ==
    { <<"1", "A-1", "Ann", "20", "10", "Ann@X.org">>,
      <<"1", "A-1", "Ann", "20", "10", "">> }

\* the rows of the ledgers that payslips are sent from
MailRows == EmailRows \cup { <<"2", "A-2", "Bob", "20", "10", "">> }

\* the documented example of period detection: two periods, at columns 3 and 4
ExampleHead ==
    << <<"Seq", "Name", "Rate per hour", "Jan 1-15", "Jan 16-31", "Adjustment Hours">> >>

ExampleRows == { <<"1", "Ann", "20", "10", "5", "2">> }

\* the adjustment columns and both amount earned columns
AdjustHead ==
    << <<"Seq", "Acct", "Name", "Rate per hour", "Jan 1-15", "Jan 16-31", "AMOUNT EARNED",
         "Adjustment Hours", "Adjustment Amount", "NET AMOUNT EARNED">> >>

\* rate cells with a minus sign and in brackets; adjustments given as an
\* amount, as hours, as both or not at all, with and without a net amount
AdjustRows ==
    { <<"1", "A-1", "Ann", "-20", "10", "5", "", "", "", "">>,
      <<"2", "A-2", "Bob", "(20)", "10", "5", "", "", "", "">>,
      <<"3", "A-3", "Cy", "20", "10", "5", "", "", "0", "250">>,
      <<"4", "A-4", "Dee", "20", "10", "5", "", "2", "", "250">>,
      <<"5", "A-5", "Eve", "20", "10", "5", "", "2", "30", "250">>,
      <<"6", "A-6", "Fay", "20", "10", "5", "", "", "", "250">>,
      <<"7", "A-7", "Gus", "20", "10", "5", "", "", "", "300">>,
      <<"8", "A-8", "Hal", "20", "10", "5", "", "2", "", "">> }

\* two headers with the same lowercase-alphanumeric projection, "email"
TwinHead == << <<"Seq", "Acct", "Name", "Rate per hour", "Jan 1-15", "Email", "E-mail">> >>

TwinRows == { <<"1", "A-1", "Ann", "20", "10", "ann@x.org", "old@x.org">> }

\* the adjustment amount in the first column
AdjustFirstHead == << <<"Adjustment Amount", "Seq", "Name", "Rate per hour", "Jan 1-15">> >>

AdjustFirstRows == { <<"30", "1", "Ann", "20", "10">> }

\* two period headers with the same dates, the second with a suffix
RepeatHead == << <<"Seq", "Acct", "Name", "Rate per hour", "Jan 1-15", "Jan 1-15 OT">> >>

RepeatRows == { <<"1", "A-1", "Ann", "20", "10", "5">> }

MkFile(utf8, head, data) == [utf8 |-> utf8, rows |-> head \o data]

FilesOf(utf8, head, rows, n) == {MkFile(utf8, head, d) : d \in SeqsUpTo(rows, n)}

\* the files with an email column that payslips are sent from, of up to two
\* data rows
MailFiles == FilesOf(TRUE, EmailHead, MailRows, 2)

\* the files with adjustment columns, of up to two data rows, and those
\* with twin headers, with the adjustment amount first and with a
\* repeated period
LedgerFiles ==
    FilesOf(TRUE, AdjustHead, AdjustRows, 2)
    \cup FilesOf(TRUE, TwinHead, TwinRows, 1)
    \cup FilesOf(TRUE, AdjustFirstHead, AdjustFirstRows, 1)
    \cup FilesOf(TRUE, RepeatHead, RepeatRows, 1)

\* files with no cell at all: an empty file and one of blank lines
BlankFiles == {MkFile(TRUE, <<>>, <<>>), MkFile(TRUE, << <<>>, <<"", "">> >>, <<>>)}

Files ==
    FilesOf(TRUE, PlainHead, PlainRows, MaxDataRows)
    \cup FilesOf(TRUE, PlainHead, ShortRows, 1)
    \cup FilesOf(FALSE, PlainHead, Latin1Rows, 1)
    \cup FilesOf(TRUE, NoPeriodHead, NoPeriodRows, 1)
    \cup FilesOf(TRUE, NetOnlyHead, NetOnlyRows, 1)
    \cup FilesOf(TRUE, NetFirstHead, NetFirstRows, 1)
    \cup FilesOf(TRUE, TaxHead, TaxRows, 1)
    \cup FilesOf(TRUE, NoPerHourHead, NoPerHourRows, 1)
    \cup FilesOf(TRUE, SeqThirdHead, SeqThirdRows, 1)
    \cup FilesOf(TRUE, EmailHead, EmailRows, 1)
    \cup FilesOf(TRUE, ExampleHead, ExampleRows, 1)
    \cup BlankFiles

-----------------------------------------------------------------------------
(* detect_periods and load_employee_data                                   *)

\* a detector that takes every header cell for a period
PeriodsFrom_of_every_header(headers, i, detected) ==
    Tuple([k \in 1..Len(headers) |->
               [name |-> _normalize_header_text(headers[k]),
                display_name |-> IF detected THEN _normalize_header_text(headers[k])
                                 ELSE "",
                column_index |-> k - 1]])

RECURSIVE PeriodsFrom(_, _, _)
\* the period dicts appended for the headers from the i-th on; detected says
\* whether detect_periods appends them or load_employee_data
PeriodsFrom(headers, i, detected) ==
    LET Named(match, normalized) ==
            IF detected
            THEN [name |-> IF match # "" THEN _normalize_header_text(match)
                           ELSE normalized,
                  display_name |-> normalized,
                  column_index |-> i - 1]
            ELSE [name |-> normalized, display_name |-> "", column_index |-> i - 1]
        Header(header) ==
            (IF _is_period_header(header)
             THEN <<Named(PeriodSearch(header), _normalize_header_text(header))>>
             ELSE <<>>)
            \o PeriodsFrom(headers, i + 1, detected)
    IN  IF i > Len(headers) THEN <<>> ELSE Header(headers[i])

\* the period dicts detect_periods appends for the merged headers
PeriodsOfHeaders(headers) == PeriodsFrom(headers, 1, TRUE)

\* the period dicts load_employee_data appends when self.periods is empty;
\* they carry no display_name
LoadPeriodsOfHeaders(headers) == PeriodsFrom(headers, 1, FALSE)

\* the header fields, lh being the header row load_employee_data settles on
\* and headers the merged headers
HeaderFields(file, lh, headers) ==
    [detect_header  |-> DetectHeaderRow(file.rows),
     load_header    |-> lh,
     headers        |-> headers,
     cols           |-> ColumnRoles(headers),
     detect_periods |-> PeriodsOfHeaders(headers),
     load_periods   |-> LoadPeriodsOfHeaders(headers),
     data_rows      |-> IF lh.kind = "found"
                        THEN SubSeq(file.rows, lh.idx + 2, Len(file.rows))
                        ELSE <<>>]

\* the merged headers of the header row lh, none when no row was found
HeadersOf(file, lh) ==
    HeaderFields(file, lh,
                 IF lh.kind = "found" THEN MergeHeaders(file.rows, lh.idx) ELSE <<>>)

(* What the two methods read off a file's rows before they look at any    *)
(* data row.  It depends on the file alone and is tabulated per file.      *)
ReadHeader(file) == HeadersOf(file, LoadHeaderRow(file.rows))

\* the files the tables below are drawn up for
KnownFiles == Files \cup MailFiles \cup LedgerFiles

HeaderOf == [file \in KnownFiles |-> ReadHeader(file)]

\* the values self.periods takes
PeriodLists ==
    {<<>>} \cup {HeaderOf[file].detect_periods : file \in Files \cup LedgerFiles}
           \cup {HeaderOf[file].load_periods : file \in Files \cup LedgerFiles}

\* the row loop of load_employee_data on a file whose header row was found,
\* with self.periods = pds
ReadRows(file, pds) ==
    RowLoop([emps |-> <<>>, calls |-> <<>>], HeaderOf[file].data_rows, 1, pds,
            HeaderOf[file].headers, HeaderOf[file].cols)

RowsOf == [file \in KnownFiles, pds \in PeriodLists |-> ReadRows(file, pds)]

RECURSIVE DetectLoop(_, _, _)
\* "for encoding in encodings_to_try" of detect_periods from encoding k on,
\* self.periods being empty; mh is self.merged_headers so far
DetectLoop(file, k, mh) ==
    IF k > Len(encodings_to_try)
    THEN [result |-> "False", periods |-> <<>>, merged_headers |-> mh]
    ELSE IF ~Decodes(file, encodings_to_try[k]) THEN DetectLoop(file, k + 1, mh)
    ELSE CASE HeaderOf[file].detect_header.kind = "NameError" ->
                [result |-> "NameError", periods |-> <<>>, merged_headers |-> mh]
           [] HeaderOf[file].detect_header.kind = "none" -> DetectLoop(file, k + 1, mh)
           [] OTHER ->
                IF Len(HeaderOf[file].detect_periods) > 0
                THEN [result |-> "True", periods |-> HeaderOf[file].detect_periods,
                      merged_headers |-> HeaderOf[file].headers]
                ELSE DetectLoop(file, k + 1, HeaderOf[file].headers)

RECURSIVE LoadLoop(_, _, _, _, _)
\* an iteration that, its rows accepted, still opens the encodings after its own
LoadedRows_opening_the_rest(file, k, pds, emps, table, tried) ==
    IF Len(emps) > 0
    THEN [result |-> "True",
          employees |-> apply_to_employees(table, emps),
          periods |-> pds, table |-> table, tried |-> encodings_to_try]
    ELSE LoadLoop(file, k + 1, pds, table, tried)

\* the end of an iteration of load_employee_data's encoding loop that has
\* read the rows: emps is self.employees and table the address book
LoadedRows(file, k, pds, emps, table, tried) ==
    IF Len(emps) > 0
    THEN [result |-> "True",
          employees |-> apply_to_employees(table, emps),
          periods |-> pds, table |-> table, tried |-> tried]
    ELSE LoadLoop(file, k + 1, pds, table, tried)

\* an iteration that has found the header row and settled self.periods
LoadRows(file, k, pds, table, tried) ==
    LoadedRows(file, k, pds, RowsOf[file, pds].emps,
               Remember(table, RowsOf[file, pds].calls, Len(RowsOf[file, pds].calls)),
               tried)

\* "for encoding in encodings_to_try" of load_employee_data from encoding k
\* on, self.employees being empty; pds is self.periods, table the address
\* book and tried the encodings opened so far
LoadLoop(file, k, pds, table, tried) ==
    IF k > Len(encodings_to_try)
    THEN [result |-> "False", employees |-> <<>>, periods |-> pds,
          table |-> table, tried |-> tried]
    ELSE IF \/ ~Decodes(file, encodings_to_try[k])
            \/ HeaderOf[file].load_header.kind # "found"
    THEN LoadLoop(file, k + 1, pds, table, Append(tried, encodings_to_try[k]))
    ELSE LoadRows(file, k,
                  IF Len(pds) = 0 THEN HeaderOf[file].load_periods ELSE pds,
                  table, Append(tried, encodings_to_try[k]))

-----------------------------------------------------------------------------
(* Payroll calculator                                                      *)

\* a computation that takes the deductions from sub_total, not from gross
calculate_employee_payroll_of_sub_total(employee) ==
    LET gross       == employee.total_gross
        adj         == employee.adjustment_amount
        sub_total   == gross - adj
        w_tax       == Mul(sub_total, employee.tax_rate)
        withholding == Mul(sub_total, employee.withholding_rate)
        p_tax       == Mul(sub_total, employee.p_tax_rate)
        total_deductions == w_tax + withholding + p_tax
    IN  [gross_pay |-> gross, sub_total |-> sub_total, w_tax |-> w_tax,
         withholding |-> withholding, p_tax |-> p_tax,
         total_deductions |-> total_deductions,
         net_pay |-> sub_total - total_deductions, of |-> 0]

\* calculate_employee_payroll, in hundredths
calculate_employee_payroll(employee) ==
    LET gross       == employee.total_gross
        adj         == employee.adjustment_amount
        sub_total   == gross - adj
        w_tax       == Mul(gross, employee.tax_rate)
        withholding == Mul(gross, employee.withholding_rate)
        p_tax       == Mul(gross, employee.p_tax_rate)
        total_deductions == w_tax + withholding + p_tax
    IN  [gross_pay |-> gross, sub_total |-> sub_total, w_tax |-> w_tax,
         withholding |-> withholding, p_tax |-> p_tax,
         total_deductions |-> total_deductions,
         net_pay |-> sub_total - total_deductions, of |-> 0]

Placements == {"15", "30", "both"}

(* The two renderers halve amounts (amount / 2.0).  Their results are      *)
(* counted in halves of a hundredth, so that a half is exact: Halves(x) is *)
(* x in that unit.                                                         *)
Halves(x) == 2 * x

RECURSIVE SumPeriodSalaries(_, _, _)
\* total_salary of the ReportLab renderer: hours * rate over every item of
\* employee['periods']
SumPeriodSalaries(items, n, rate) ==
    IF n = 0 THEN 0
    ELSE SumPeriodSalaries(items, n - 1, rate) + Mul(items[n].value.hours, rate)

\* a ReportLab path whose split_amount halves the amounts for every placement
ReportLabFigures_always_both(employee, withholding_placement) ==
    LET total_salary == SumPeriodSalaries(employee.periods, Len(employee.periods),
                                          employee.hourly_rate)
        gross    == IF employee.total_gross # 0 THEN employee.total_gross
                    ELSE total_salary
        w_rate   == employee.withholding_rate
        p_rate   == employee.p_tax_rate
        w_amount == IF employee.withholding_amount = 0 /\ w_rate # 0
                    THEN Mul(gross, w_rate) ELSE employee.withholding_amount
        p_amount == IF employee.percent_tax = 0 /\ p_rate # 0
                    THEN Mul(gross, p_rate) ELSE employee.percent_tax
        split_amount(amount, place) ==
            <<amount, amount>>
        w == split_amount(w_amount, withholding_placement)
        q == split_amount(p_amount, withholding_placement)
        total_15 == w[1] + q[1]
        total_30 == w[2] + q[2]
        total_deductions == total_15 + total_30
    IN  [path |-> "reportlab", placement |-> withholding_placement,
         gross |-> Halves(gross),
         w_amt |-> Halves(w_amount), p_amt |-> Halves(p_amount),
         w_15 |-> w[1], w_30 |-> w[2], p_15 |-> q[1], p_30 |-> q[2],
         total_15 |-> total_15, total_30 |-> total_30,
         total_deductions |-> total_deductions,
         net_pay |-> Halves(gross) - total_deductions]

\* the summary figures of generate_pdf_payslip's ReportLab path, in halves
\* of a hundredth
ReportLabFigures(employee, withholding_placement) ==
    LET total_salary == SumPeriodSalaries(employee.periods, Len(employee.periods),
                                          employee.hourly_rate)
        gross    == IF employee.total_gross # 0 THEN employee.total_gross
                    ELSE total_salary
        w_rate   == employee.withholding_rate
        p_rate   == employee.p_tax_rate
        w_amount == IF employee.withholding_amount = 0 /\ w_rate # 0
                    THEN Mul(gross, w_rate) ELSE employee.withholding_amount
        p_amount == IF employee.percent_tax = 0 /\ p_rate # 0
                    THEN Mul(gross, p_rate) ELSE employee.percent_tax
        split_amount(amount, place) ==
            IF place = "both" THEN <<amount, amount>>
            ELSE IF place = "15" THEN <<Halves(amount), 0>>
            ELSE <<0, Halves(amount)>>
        w == split_amount(w_amount, withholding_placement)
        q == split_amount(p_amount, withholding_placement)
        total_15 == w[1] + q[1]
        total_30 == w[2] + q[2]
        total_deductions == total_15 + total_30
    IN  [path |-> "reportlab", placement |-> withholding_placement,
         gross |-> Halves(gross),
         w_amt |-> Halves(w_amount), p_amt |-> Halves(p_amount),
         w_15 |-> w[1], w_30 |-> w[2], p_15 |-> q[1], p_30 |-> q[2],
         total_15 |-> total_15, total_30 |-> total_30,
         total_deductions |-> total_deductions,
         net_pay |-> Halves(gross) - total_deductions]

\* round(x, 2) for x counted in halves of a hundredth.  A value that lies
\* halfway between two hundredths goes up or down according to the binary
\* double that holds it; tie_up says which.
Round2(x, tie_up) ==
    IF x % 2 = 0 THEN x ELSE IF tie_up THEN x + 1 ELSE x - 1

\* round(a * b, 2) for fixed-point a and b, in hundredths
RoundMul(a, b, tie_up) ==
    LET q == (a * b) \div Scale
        r == (a * b) % Scale
    IN  IF 2 * r < Scale THEN q
        ELSE IF 2 * r > Scale THEN q + 1
        ELSE IF tie_up THEN q + 1 ELSE q

RECURSIVE PeriodEntries(_, _, _)
\* period_entries of _excel_fill_template: the hours of the employee's
\* record under each detected period's name, in period order
PeriodEntries(pds, k, employee) ==
    IF k > Len(pds) THEN <<>>
    ELSE LET hits == {n \in 1..Len(employee.periods) :
                          employee.periods[n].key = pds[k].name}
             rest == PeriodEntries(pds, k + 1, employee)
         IN  IF hits = {} THEN rest
             ELSE <<employee.periods[CHOOSE n \in hits : TRUE].value.hours>> \o rest

RECURSIVE SumSeq(_, _)
SumSeq(q, n) == IF n = 0 THEN 0 ELSE SumSeq(q, n - 1) + q[n]

\* the figures _excel_fill_template computes, in halves of a hundredth: w_15
\* to p_30 are the split amounts, cell_w_15 to cell_p_30 what it writes of
\* them to the sheet
ExcelFigures(pds, employee, placement, tie_up) ==
    LET rate        == employee.hourly_rate
        adj_amt     == employee.adjustment_amount
        entries     == PeriodEntries(pds, 1, employee)
        total_hours == SumSeq(entries, Len(entries))
        sal_earned  == RoundMul(rate, total_hours, tie_up)
        sub_total   == sal_earned - adj_amt
        gross_for_tax == sal_earned
        w_rate == IF employee.withholding_rate # 0 THEN employee.withholding_rate
                  ELSE employee.tax_rate
        p_rate == employee.p_tax_rate
        w_amt  == IF employee.withholding_amount = 0 /\ w_rate # 0
                  THEN RoundMul(gross_for_tax, w_rate, tie_up)
                  ELSE employee.withholding_amount
        p_amt  == IF employee.percent_tax = 0 /\ p_rate # 0
                  THEN RoundMul(gross_for_tax, p_rate, tie_up)
                  ELSE employee.percent_tax
        split_amount(v) ==
            IF placement = "15" THEN <<Halves(v), 0>>
            ELSE IF placement = "30" THEN <<0, Halves(v)>>
            ELSE <<v, v>>
        w == split_amount(w_amt)
        q == split_amount(p_amt)
        total_15  == Round2(w[1] + q[1], tie_up)
        total_30  == Round2(w[2] + q[2], tie_up)
        total_ded == Round2(total_15 + total_30, tie_up)
    IN  [path |-> "template", placement |-> placement,
         gross |-> Halves(sal_earned), sub_total |-> Halves(sub_total),
         w_amt |-> Halves(w_amt), p_amt |-> Halves(p_amt),
         w_15 |-> w[1], w_30 |-> w[2], p_15 |-> q[1], p_30 |-> q[2],
         cell_w_15 |-> Round2(w[1], tie_up), cell_w_30 |-> Round2(w[2], tie_up),
         cell_p_15 |-> Round2(q[1], tie_up), cell_p_30 |-> Round2(q[2], tie_up),
         total_15 |-> total_15, total_30 |-> total_30,
         total_deductions |-> total_ded,
         net_pay |-> Round2(Halves(sub_total) - total_ded, tie_up)]

-----------------------------------------------------------------------------
(* The processor                                                           *)

\* nothing computed yet ("of" is the number of the employee it is for)
NoPayroll == [gross_pay |-> 0, sub_total |-> 0, w_tax |-> 0, withholding |-> 0,
              p_tax |-> 0, total_deductions |-> 0, net_pay |-> 0, of |-> 0]

\* nothing rendered yet
NoSlip == [of |-> 0, tie_up |-> FALSE, figures |-> [path |-> "none"]]

\* DynamicPayrollProcessor.__init__, with an address book that holds nothing
\* no lookup made yet
NoLookup == [seq |-> "", account_no |-> "", name |-> "", email |-> ""]

\* no send_all_payslips made yet
NoBatch ==
    [dry_run |-> TRUE, mailer |-> TRUE, pdf |-> <<>>, transport |-> <<>>,
     before |-> [employees |-> <<>>, store |-> <<>>, emails_csv |-> <<>>]]

\* an argument that is None, and one that is the text t
NoText == [none |-> TRUE, val |-> ""]

Text(t) == [none |-> FALSE, val |-> t]

\* no safe_float or parse_percent called yet
NoNumber == [fn |-> "none", arg |-> NoText, default |-> 0, result |-> 0]

\* DynamicPayrollGUIGenerator.__init__: the paging state of a window that
\* has loaded nothing, and no pan_xview made yet
NoPreview ==
    [period_view_offset |-> 0, period_view_window |-> 6,
     all_period_ids |-> <<>>, _fixed_period_ids |-> <<>>,
     _two_page_mode |-> FALSE, _page_number |-> 1,
     show_all_columns |-> FALSE, employee_data |-> 0,
     last |-> "none", before_offset |-> 0, delta_fraction |-> 0, width_is_1 |-> TRUE]

\* no processing run made yet
NoRun ==
    [by |-> "none", file |-> MkFile(TRUE, <<>>, <<>>), detect_result |-> "none",
     load_result |-> "none", payslips |-> 0, queued |-> FALSE]

OutsideInit ==
    /\ looked_up = NoLookup
    /\ results = <<>>
    /\ mail_calls = <<>>
    /\ emails_csv = <<>>
    /\ batch = NoBatch
    /\ number = NoNumber
    /\ gui = NoPreview
    /\ run = NoRun
    /\ mailing = <<>>

Init ==
    /\ periods = <<>>
    /\ employees = <<>>
    /\ merged_headers = <<>>
    /\ store = <<>>
    /\ last_call = "none"
    /\ loaded_file = MkFile(TRUE, <<>>, <<>>)
    /\ detect_result = "none"
    /\ load_result = "none"
    /\ encodings_tried = <<>>
    /\ payroll = NoPayroll
    /\ slip = NoSlip
    /\ OutsideInit

detect_periods(file) ==
    \E out \in {DetectLoop(file, 1, merged_headers)} :
        /\ periods' = out.periods
        /\ merged_headers' = out.merged_headers
        /\ detect_result' = out.result
        /\ last_call' = "detect"
        /\ UNCHANGED <<loaded_file, employees, store, load_result, encodings_tried,
                       payroll, slip>>
        /\ UNCHANGED outside_vars

\* a load that appends to the ledger it finds in place of starting it afresh
load_employee_data_appending(file) ==
    \E out \in {LoadLoop(file, 1, periods, store, <<>>)} :
        /\ employees' = employees \o out.employees
        /\ periods' = out.periods
        /\ store' = out.table
        /\ load_result' = out.result
        /\ encodings_tried' = out.tried
        /\ last_call' = "load"
        /\ loaded_file' = file
        /\ UNCHANGED <<merged_headers, detect_result, payroll, slip>>
        /\ UNCHANGED outside_vars

load_employee_data(file) ==
    \E out \in {LoadLoop(file, 1, periods, store, <<>>)} :
        /\ employees' = out.employees
        /\ periods' = out.periods
        /\ store' = out.table
        /\ load_result' = out.result
        /\ encodings_tried' = out.tried
        /\ last_call' = "load"
        /\ loaded_file' = file
        /\ UNCHANGED <<merged_headers, detect_result, payroll, slip>>
        /\ UNCHANGED outside_vars

DetectAny == \E file \in Files : detect_periods(file)

LoadAny == \E file \in Files : load_employee_data(file)

Next == DetectAny \/ LoadAny

Spec == Init /\ [][Next]_vars

\* the two methods on the files with adjustment columns
DetectLedger == \E file \in LedgerFiles : detect_periods(file)

LoadLedger == \E file \in LedgerFiles : load_employee_data(file)

NextLedger == DetectLedger \/ LoadLedger

SpecLedger == Init /\ [][NextLedger]_vars

-----------------------------------------------------------------------------
(* Payroll of a loaded ledger                                              *)

\* a processor that has not run detect_periods
NotDetected == [result |-> "none", periods |-> <<>>, merged_headers |-> <<>>]

\* a processor on which load_employee_data has succeeded once, after
\* detect_periods on the same file or without it
InitPayroll ==
    \E file \in Files, detect_first \in BOOLEAN :
        \E d \in {IF detect_first THEN DetectLoop(file, 1, <<>>) ELSE NotDetected} :
            \E l \in {LoadLoop(file, 1, d.periods, <<>>, <<>>)} :
                /\ d.result # "NameError"
                /\ l.result = "True"
                /\ periods = l.periods
                /\ employees = l.employees
                /\ merged_headers = d.merged_headers
                /\ store = l.table
                /\ last_call = "load"
                /\ loaded_file = file
                /\ detect_result = d.result
                /\ load_result = l.result
                /\ encodings_tried = l.tried
                /\ payroll = NoPayroll
                /\ slip = NoSlip
                /\ OutsideInit

\* calculate_employee_payroll on the i-th employee; "of" remembers which
CalculatePayroll(i) ==
    /\ payroll' = [calculate_employee_payroll(employees[i]) EXCEPT !.of = i]
    /\ UNCHANGED <<periods, employees, merged_headers, store, last_call, loaded_file,
                   detect_result, load_result, encodings_tried, slip>>
    /\ UNCHANGED outside_vars

\* generate_pdf_payslip on the i-th employee: the template path when
\* openpyxl, the template and the export are available, else ReportLab
generate_pdf_payslip(i, withholding_placement, use_template, tie_up) ==
    /\ slip' = IF use_template
               THEN [of |-> i, tie_up |-> tie_up,
                     figures |-> ExcelFigures(periods, employees[i],
                                              withholding_placement, tie_up)]
               ELSE [of |-> i, tie_up |-> tie_up,
                     figures |-> ReportLabFigures(employees[i], withholding_placement)]
    /\ UNCHANGED <<periods, employees, merged_headers, store, last_call, loaded_file,
                   detect_result, load_result, encodings_tried, payroll>>
    /\ UNCHANGED outside_vars

CalculateAny == \E i \in 1..Len(employees) : CalculatePayroll(i)

RenderTemplate ==
    \E i \in 1..Len(employees), pl \in Placements, tie_up \in BOOLEAN :
        generate_pdf_payslip(i, pl, TRUE, tie_up)

RenderReportLab ==
    \E i \in 1..Len(employees), pl \in Placements :
        generate_pdf_payslip(i, pl, FALSE, FALSE)

NextPayroll == CalculateAny \/ RenderTemplate \/ RenderReportLab

SpecPayroll == InitPayroll /\ [][NextPayroll]_vars

-----------------------------------------------------------------------------
(* send_all_payslips.  None is the empty string.  What lies outside the    *)
(* processor is an argument of the batch: whether the mailer module could  *)
(* be imported, for each employee what producing the PDF comes to ("True": *)
(* a PDF is found in place or generate_pdf_payslip returns True, "False":  *)
(* it returns False, "raises": it raises), and what Mailer.send does       *)
(* ("sent", or the message of the exception it raises).                    *)

PdfOutcomes == {"True", "False", "raises"}

SendOutcomes == {"sent", "SMTP error"}

\* the value the dict email_map[col] holds for key after emails.csv has been
\* read from its n-th row on, given the value held so far; a later row
\* overwrites an earlier one
RECURSIVE EmailMapGet(_, _, _, _, _)
EmailMapGet(csv, col, key, n, held) ==
    IF n > Len(csv) THEN held
    ELSE EmailMapGet(csv, col, key, n + 1,
                     IF (IF col = "name" THEN Lower(Strip(csv[n][col])) ELSE Strip(csv[n][col]))
                            = key
                     THEN csv[n].email ELSE held)

\* the first of the values found by seq, by account_no and by name that is
\* not empty
FirstFound(by_seq, by_acct, by_name) ==
    IF by_seq # "" THEN by_seq ELSE IF by_acct # "" THEN by_acct ELSE by_name

\* the recipient merged in from email_map for an employee without emails
FromEmailMap(csv, emp) ==
    FirstFound(IF Strip(emp.seq) # "" THEN EmailMapGet(csv, "seq", Strip(emp.seq), 1, "")
               ELSE "",
               IF emp.account_no # ""
               THEN EmailMapGet(csv, "account_no", emp.account_no, 1, "") ELSE "",
               IF Lower(Strip(emp.name)) # ""
               THEN EmailMapGet(csv, "name", Lower(Strip(emp.name)), 1, "") ELSE "")

\* to_email: the employee's own emails first, then email_map
Recipient(csv, emp) ==
    IF emp.email # "" THEN emp.email
    ELSE IF emp.personal_email # "" THEN emp.personal_email
    ELSE IF emp.work_email # "" THEN emp.work_email
    ELSE FromEmailMap(csv, emp)

\* one dict of the list send_all_payslips returns
Result(emp, status, error, email) ==
    [name |-> emp.name, seq |-> emp.seq, status |-> status, error |-> error,
     email |-> email]

\* the employee with the recipient attached when it has no email of its own
Attached(emp, to_email) ==
    IF emp.email = "" THEN [emp EXCEPT !.email = to_email] ELSE emp

\* an iteration that calls the mail transport in a dry run too
Delivered_also_when_dry(acc, emp, to_email, n, dry_run, mailer, outcome) ==
    [employees  |-> Append(acc.employees, emp),
     table      |-> remember_from_employee(acc.table, emp, to_email),
     results    |-> Append(acc.results,
                           IF dry_run \/ ~mailer THEN Result(emp, "dry_run", "", to_email)
                           ELSE IF outcome = "sent" THEN Result(emp, "sent", "", to_email)
                           ELSE Result(emp, "error", outcome, to_email)),
     mail_calls |-> IF ~mailer THEN acc.mail_calls
                    ELSE Append(acc.mail_calls, [to_email |-> to_email, attachment |-> n])]

\* the end of an iteration that has a PDF and the recipient to_email: the
\* mail transport is called unless the run is a dry run or has no mailer
Delivered(acc, emp, to_email, n, dry_run, mailer, outcome) ==
    [employees  |-> Append(acc.employees, emp),
     table      |-> remember_from_employee(acc.table, emp, to_email),
     results    |-> Append(acc.results,
                           IF dry_run \/ ~mailer THEN Result(emp, "dry_run", "", to_email)
                           ELSE IF outcome = "sent" THEN Result(emp, "sent", "", to_email)
                           ELSE Result(emp, "error", outcome, to_email)),
     mail_calls |-> IF dry_run \/ ~mailer THEN acc.mail_calls
                    ELSE Append(acc.mail_calls, [to_email |-> to_email, attachment |-> n])]

\* an iteration that has a PDF, to_email being the recipient found
Addressed(acc, emp, to_email, n, dry_run, mailer, outcome) ==
    IF to_email = ""
    THEN [acc EXCEPT !.employees = Append(acc.employees, emp),
                     !.results = Append(acc.results,
                                        Result(emp, "skipped:no_email", "no_recipient", ""))]
    ELSE Delivered(acc, Attached(emp, to_email), to_email, n, dry_run, mailer, outcome)

\* an iteration that gives up the batch when producing the PDF raises
SendStep_stopping_at_raise(acc, emp, csv, n, b) ==
    IF b.pdf[n] = "raises" \/ Len(acc.results) < n - 1
    THEN [acc EXCEPT !.employees = Append(acc.employees, emp)]
    ELSE IF b.pdf[n] = "False"
    THEN [acc EXCEPT !.employees = Append(acc.employees, emp),
                     !.results = Append(acc.results,
                                        Result(emp, "skipped:no_pdf", "pdf_failed", ""))]
    ELSE Addressed(acc, emp, Recipient(csv, emp), n, b.dry_run, b.mailer, b.transport[n])

\* one iteration of "for idx, emp in enumerate(self.employees, start=1)"
SendStep(acc, emp, csv, n, b) ==
    IF b.pdf[n] \in {"False", "raises"}
    THEN [acc EXCEPT !.employees = Append(acc.employees, emp),
                     !.results = Append(acc.results,
                                        Result(emp, "skipped:no_pdf", "pdf_failed", ""))]
    ELSE Addressed(acc, emp, Recipient(csv, emp), n, b.dry_run, b.mailer, b.transport[n])

RECURSIVE SendLoop(_, _, _, _, _)
\* the loop over self.employees from the n-th employee on
SendLoop(acc, emps, csv, n, b) ==
    IF n > Len(emps) THEN acc
    ELSE SendLoop(SendStep(acc, emps[n], csv, n, b), emps, csv, n + 1, b)

\* "missing_any": some employee has none of the three emails
MissingAny(emps) ==
    \E n \in 1..Len(emps) :
        emps[n].email = "" /\ emps[n].personal_email = "" /\ emps[n].work_email = ""

\* the loop on the employees emps, which the address book has filled in;
\* emails.csv is read only when an email is missing
SendApplied(emps, table, csv, b) ==
    SendLoop([employees |-> <<>>, table |-> table, results |-> <<>>, mail_calls |-> <<>>],
             emps, IF MissingAny(emps) THEN csv ELSE <<>>, 1, b)

\* what send_all_payslips makes of the ledger, the address book and emails.csv
SendAll(emps, table, csv, b) == SendApplied(apply_to_employees(table, emps), table, csv, b)

\* EmailStore.export_to_csv: the rows written, the entry updated last first
ExportToCsv(table) ==
    Tuple([n \in 1..Len(table) |->
               [seq        |-> table[Len(table) + 1 - n].seq,
                account_no |-> table[Len(table) + 1 - n].account_no,
                name       |-> table[Len(table) + 1 - n].display_name,
                email      |-> table[Len(table) + 1 - n].email]])

\* the batch in which producing the PDF of employee i does what how says and
\* Mailer.send raises for employee j; 0 is no employee
Batch(n, dry_run, mailer, i, how, j) ==
    [dry_run   |-> dry_run,
     mailer    |-> mailer,
     pdf       |-> [k \in 1..n |-> IF k = i THEN how ELSE "True"],
     transport |-> [k \in 1..n |-> IF k = j THEN "SMTP error" ELSE "sent"]]

\* the arguments and surroundings of a batch over n employees: the PDF of at
\* most one employee failing, and either a dry run, or a real run without the
\* mailer module, or a real run in which the send of at most one raises
Batches(n) ==
    {Batch(n, TRUE, TRUE, i, how, 0) : i \in 0..n, how \in {"False", "raises"}}
    \cup {Batch(n, FALSE, FALSE, i, how, 0) : i \in 0..n, how \in {"False", "raises"}}
    \cup {Batch(n, FALSE, TRUE, i, how, j) :
              i \in 0..n, how \in {"False", "raises"}, j \in 0..n}

\* the batch b on record, with what it began with
Begun(b, emps, table, csv) ==
    [dry_run |-> b.dry_run, mailer |-> b.mailer, pdf |-> b.pdf, transport |-> b.transport,
     before |-> [employees |-> emps, store |-> table, emails_csv |-> csv]]

send_all_payslips(b) ==
    \E out \in {SendAll(employees, store, emails_csv, b)} :
        /\ employees' = out.employees
        /\ store' = out.table
        /\ results' = out.results
        /\ mail_calls' = out.mail_calls
        /\ emails_csv' = ExportToCsv(out.table)
        /\ batch' = Begun(b, employees, store, emails_csv)
        /\ last_call' = "send"
        /\ UNCHANGED <<periods, merged_headers, loaded_file, detect_result, load_result,
                       encodings_tried, payroll, slip, looked_up>>
        /\ UNCHANGED desk_vars

\* the emails.csv a user keeps in the working directory
UserEmailsCsv ==
    {<<>>,
     << [seq |-> "1", account_no |-> "", name |-> "", email |-> "ann@csv.org"] >>,
     << [seq |-> "", account_no |-> "", name |-> "BOB ", email |-> "bob@csv.org"],
        [seq |-> "9", account_no |-> "A-1", name |-> "", email |-> ""] >>}

SendAny == \E b \in Batches(Len(employees)) : send_all_payslips(b)

NextMail == SendAny

\* a processor that has loaded a file with an email column, and the
\* emails.csv found in the working directory
InitMail ==
    \E file \in MailFiles, csv \in UserEmailsCsv :
        \E l \in {LoadLoop(file, 1, <<>>, <<>>, <<>>)} :
            /\ l.result = "True"
            /\ periods = l.periods
            /\ employees = l.employees
            /\ merged_headers = <<>>
            /\ store = l.table
            /\ last_call = "load"
            /\ loaded_file = file
            /\ detect_result = "none"
            /\ load_result = l.result
            /\ encodings_tried = l.tried
            /\ payroll = NoPayroll
            /\ slip = NoSlip
            /\ looked_up = NoLookup
            /\ results = <<>>
            /\ mail_calls = <<>>
            /\ emails_csv = csv
            /\ batch = NoBatch
            /\ number = NoNumber
            /\ gui = NoPreview
            /\ run = NoRun
            /\ mailing = <<>>

SpecMail == InitMail /\ [][NextMail]_vars

-----------------------------------------------------------------------------
(* The address book on its own: entries remembered and looked up           *)

Who(seq, account_no, name) == [seq |-> seq, account_no |-> account_no, name |-> name]

\* the employees whose email is remembered; "" is a field left empty
Remembered ==
    {Who("1", "A-1", ""), Who("2", "A-2", " Ann "), Who("2", "A-1", ""), Who("", "", "Bob")}

\* the keys looked up: of one entry, and of two entries at once
Asked ==
    {Who("1", "A-1", ""), Who("1", "A-2", ""), Who("1", "", "ann"),
     Who("", "A-1", "Ann"), Who("3", "", "")}

Emails == {"a@x.org", " B@X.org"}

\* EmailStore.remember_from_employee(employee, email)
RememberFromEmployee(employee, email) ==
    /\ store' = remember_from_employee(store, employee, email)
    /\ last_call' = "remember"
    /\ UNCHANGED <<periods, employees, merged_headers, loaded_file, detect_result,
                   load_result, encodings_tried, payroll, slip, looked_up>>
    /\ UNCHANGED mail_vars
    /\ UNCHANGED desk_vars

\* EmailStore.lookup(seq=..., account_no=..., name=...)
Lookup(who) ==
    /\ looked_up' = [seq |-> who.seq, account_no |-> who.account_no, name |-> who.name,
                     email |-> lookup(store, who.seq, who.account_no, who.name)]
    /\ last_call' = "lookup"
    /\ UNCHANGED <<periods, employees, merged_headers, store, loaded_file,
                   detect_result, load_result, encodings_tried, payroll, slip>>
    /\ UNCHANGED mail_vars
    /\ UNCHANGED desk_vars

RememberAny ==
    \E employee \in Remembered, email \in Emails : RememberFromEmployee(employee, email)

LookupAny == \E who \in Asked : Lookup(who)

NextStore == RememberAny \/ LookupAny

SpecStore == Init /\ [][NextStore]_vars

-----------------------------------------------------------------------------
(* The numeric normalizer on its own: safe_float and parse_percent called  *)
(* with an argument and a default                                          *)

MaxTextLen == 3

\* the characters the texts are made of: digits, the dot, the minus sign,
\* the blank, the percent sign, the comma, a letter and the en dash
NumberAlphabet == {"1", "5", ".", "-", " ", "%", ",", "x", EN_DASH}

RECURSIVE Texts(_)
\* the texts of at most n characters of NumberAlphabet
Texts(n) ==
    IF n = 0 THEN {""}
    ELSE LET shorter == Texts(n - 1)
         IN  shorter \cup {t \o c : t \in shorter, c \in NumberAlphabet}

LongerTexts ==
    {"1.2.3", "--5", "1-2", "12.5%", "1,234.50", "$ 7.5", " 12 % ", EM_DASH}

\* the arguments: None and the texts
NumberArgs == {NoText} \cup {Text(t) : t \in Texts(MaxTextLen) \cup LongerTexts}

\* the defaults: 0.0 and 0.05
NumberDefaults == {0, 5}

\* safe_float(s, default=default) for the argument held
CallSafeFloat ==
    /\ number' = [number EXCEPT
                    !.fn = "safe_float",
                    !.result = IF number.arg.none THEN number.default
                               ELSE safe_float(number.arg.val, number.default)]
    /\ last_call' = "safe_float"
    /\ UNCHANGED <<periods, employees, merged_headers, store, loaded_file,
                   detect_result, load_result, encodings_tried, payroll, slip,
                   looked_up, gui, run, mailing>>
    /\ UNCHANGED mail_vars

\* parse_percent(s, default=default) for the argument held
CallParsePercent ==
    /\ number' = [number EXCEPT
                    !.fn = "parse_percent",
                    !.result = IF number.arg.none THEN number.default
                               ELSE parse_percent(number.arg.val, number.default)]
    /\ last_call' = "parse_percent"
    /\ UNCHANGED <<periods, employees, merged_headers, store, loaded_file,
                   detect_result, load_result, encodings_tried, payroll, slip,
                   looked_up, gui, run, mailing>>
    /\ UNCHANGED mail_vars

NextNumbers == CallSafeFloat \/ CallParsePercent

\* a processor as constructed, and an argument and a default to call the
\* two functions with
InitNumbers ==
    \E arg \in NumberArgs, default \in NumberDefaults :
        /\ periods = <<>>
        /\ employees = <<>>
        /\ merged_headers = <<>>
        /\ store = <<>>
        /\ last_call = "none"
        /\ loaded_file = MkFile(TRUE, <<>>, <<>>)
        /\ detect_result = "none"
        /\ load_result = "none"
        /\ encodings_tried = <<>>
        /\ payroll = NoPayroll
        /\ slip = NoSlip
        /\ looked_up = NoLookup
        /\ results = <<>>
        /\ mail_calls = <<>>
        /\ emails_csv = <<>>
        /\ batch = NoBatch
        /\ number = [fn |-> "none", arg |-> arg, default |-> default, result |-> 0]
        /\ gui = NoPreview
        /\ run = NoRun
        /\ mailing = <<>>

SpecNumbers == InitNumbers /\ [][NextNumbers]_vars

-----------------------------------------------------------------------------
(* The preview of DynamicPayrollGUIGenerator: the paging state of the      *)
(* employee tree.  What the temporary processor of load_employee_preview   *)
(* makes of the chosen file is an argument: whether detect_periods and     *)
(* load_employee_data returned True, and how many periods were detected.   *)
(* delta_fraction counts hundredths.                                       *)

MaxPeriods == 8

static_columns ==
    <<"Seq", "Name", "Rate (per hour)",
      "Adjustment (Hours)", "Adjustment (Amount)",
      "Net Amount Earned", "W/ Tax Rate", "W/Holding Tax", "P-Tax Rate", "Percent. Tax",
      "Total Tax Deductions", "Net Amount Received">>

FIXED_PERIOD_COUNT == 5

Min(a, b) == IF a <= b THEN a ELSE b

\* f'period_{i}'
PeriodId(i) == "period_" \o Char(DigitChars, i + 1)

\* expanded_period_ids for n periods
ExpandedPeriodIds(n) == [i \in 1..n |-> PeriodId(i - 1)]

\* the columns of the tree: the three on the left, the periods, the rest
AllColumns(ids) == SubSeq(static_columns, 1, 3) \o ids \o SubSeq(static_columns, 4, Len(static_columns))

\* bool(split_idx is not None and split_idx < len(all_columns) - 1)
TwoPageMode(columns) ==
    \E i \in 1..Len(columns) : columns[i] = "W/ Tax Rate" /\ i < Len(columns)

\* the paging state _reset_tree_columns leaves
_reset_tree_columns(g) ==
    [g EXCEPT !.period_view_offset = 0, !._fixed_period_ids = <<>>,
              !.all_period_ids = <<>>, !._two_page_mode = FALSE, !._page_number = 1]

\* the periods that are paged: those of all_period_ids not held fixed
PagedPeriods(g) ==
    Cardinality({i \in 1..Len(g.all_period_ids) :
                    \A j \in 1..Len(g._fixed_period_ids) :
                        g.all_period_ids[i] # g._fixed_period_ids[j]})

\* the paging state _update_displaycolumns leaves: outside the two-page mode
\* and the display of all columns the offset is clamped
_update_displaycolumns(g) ==
    IF g.all_period_ids = <<>> \/ g._two_page_mode \/ g.show_all_columns
       \/ PagedPeriods(g) <= 0
    THEN g
    ELSE [g EXCEPT !.period_view_offset =
              Max(0, Min(g.period_view_offset,
                         Max(0, PagedPeriods(g) - g.period_view_window)))]

\* period_view_window after the two adjustments of populate_employee_tree
WindowFor(window, total_periods) ==
    Max(1, Min(IF total_periods > 1 /\ total_periods <= window
               THEN Max(1, total_periods - 1) ELSE window,
               total_periods))

\* populate_employee_tree when the processor holds n periods
populate_employee_tree(g, n) ==
    IF g.employee_data = 0 THEN g
    ELSE _update_displaycolumns(
            [g EXCEPT !.all_period_ids = ExpandedPeriodIds(n),
                      !._fixed_period_ids =
                          SubSeq(ExpandedPeriodIds(n), 1, Min(FIXED_PERIOD_COUNT, n)),
                      !._two_page_mode = TwoPageMode(AllColumns(ExpandedPeriodIds(n))),
                      !._page_number = 1,
                      !.period_view_window = WindowFor(g.period_view_window, n),
                      !.period_view_offset = 0])

\* what the temporary processor makes of the file chosen
Previews ==
    {[detected |-> FALSE, loaded |-> FALSE, periods |-> 0]}
    \cup {[detected |-> TRUE, loaded |-> ld, periods |-> n] :
              ld \in BOOLEAN, n \in 1..MaxPeriods}

\* what the window's handlers leave alone
beside_gui == <<periods, employees, merged_headers, store, last_call, loaded_file,
                detect_result, load_result, encodings_tried, payroll, slip,
                looked_up, number, results, mail_calls, emails_csv, batch, run,
                mailing>>

load_employee_preview(preview) ==
    /\ gui' = (LET reset == [_reset_tree_columns([gui EXCEPT !.show_all_columns = FALSE])
                                EXCEPT !.last = "load_employee_preview"]
               IN  IF preview.detected /\ preview.loaded
                   THEN populate_employee_tree([reset EXCEPT !.employee_data = 1],
                                               preview.periods)
                   ELSE reset)
    /\ UNCHANGED beside_gui

\* the checkbox set to show_all, and its command
_on_show_all_columns_toggle(show_all) ==
    /\ gui' = [_update_displaycolumns([gui EXCEPT !.show_all_columns = show_all])
                  EXCEPT !.last = "_on_show_all_columns_toggle"]
    /\ UNCHANGED beside_gui

\* the paging branch of pan_xview: a page forwards or backwards, clamped
Paged(g, delta_fraction) ==
    LET max_off    == Max(0, PagedPeriods(g) - g.period_view_window)
        step_pages == IF delta_fraction > 0 THEN 1 ELSE 0 - 1
        new_offset == Max(0, Min(max_off,
                                 g.period_view_offset + step_pages * g.period_view_window))
    IN  IF new_offset = g.period_view_offset THEN g
        ELSE _update_displaycolumns([g EXCEPT !.period_view_offset = new_offset])

\* pan_xview(delta_fraction) when the tree's xview is as wide as 1, or not
pan_xview(delta_fraction, width_is_1) ==
    /\ gui' = [(IF gui._two_page_mode
                THEN _update_displaycolumns(
                       [gui EXCEPT !._page_number =
                           IF delta_fraction > 0 THEN Min(2, gui._page_number + 1)
                           ELSE Max(1, gui._page_number - 1)])
                ELSE IF ~gui.show_all_columns \/ width_is_1
                     THEN Paged(gui, delta_fraction)
                     ELSE gui)
                  EXCEPT !.last = "pan_xview",
                         !.before_offset = gui.period_view_offset,
                         !.delta_fraction = delta_fraction,
                         !.width_is_1 = width_is_1]
    /\ UNCHANGED beside_gui

LoadPreviewAny == \E preview \in Previews : load_employee_preview(preview)

ToggleAny == \E show_all \in BOOLEAN : _on_show_all_columns_toggle(show_all)

PanAny == \E delta_fraction \in {25, 0 - 25}, width_is_1 \in BOOLEAN :
              pan_xview(delta_fraction, width_is_1)

NextGui == LoadPreviewAny \/ ToggleAny \/ PanAny

SpecGui == Init /\ [][NextGui]_vars

-----------------------------------------------------------------------------
(* The processing runs: process_payroll_to_pdfs of the processor and       *)
(* process_payroll of the window.  A run is one step; the tree the window  *)
(* fills with root.after is a step of its own.                             *)

\* the slip left by the payslip loop over emps: that of the last employee
SlipAfter(emps, pds, withholding_placement, use_template, tie_up, before) ==
    IF Len(emps) = 0 THEN before
    ELSE [of |-> Len(emps), tie_up |-> tie_up,
          figures |-> IF use_template
                      THEN ExcelFigures(pds, emps[Len(emps)], withholding_placement, tie_up)
                      ELSE ReportLabFigures(emps[Len(emps)], withholding_placement)]

\* a run that ends after detect_periods, d being what detect_periods made
RunEndsAtDetect(by, file, d) ==
    /\ periods' = d.periods
    /\ merged_headers' = d.merged_headers
    /\ detect_result' = d.result
    /\ last_call' = "detect"
    /\ run' = [by |-> by, file |-> file, detect_result |-> d.result,
               load_result |-> "none", payslips |-> 0, queued |-> FALSE]
    /\ UNCHANGED <<loaded_file, employees, store, load_result, encodings_tried,
                   payroll, slip, gui>>

\* a run that goes on to load_employee_data, l being what it made, and to a
\* payslip for every employee when the load succeeded
RunLoads(by, file, d, l, withholding_placement, use_template, tie_up) ==
    /\ periods' = l.periods
    /\ merged_headers' = d.merged_headers
    /\ detect_result' = d.result
    /\ employees' = l.employees
    /\ store' = l.table
    /\ load_result' = l.result
    /\ encodings_tried' = l.tried
    /\ last_call' = "load"
    /\ loaded_file' = file
    /\ slip' = IF l.result = "True"
               THEN SlipAfter(l.employees, l.periods, withholding_placement,
                              use_template, tie_up, slip)
               ELSE slip
    /\ run' = [by |-> by, file |-> file, detect_result |-> d.result,
               load_result |-> l.result,
               payslips |-> IF l.result = "True" THEN Len(l.employees) ELSE 0,
               queued |-> by = "process_payroll" /\ l.result = "True"]
    /\ gui' = IF by = "process_payroll" /\ l.result = "True"
              THEN [gui EXCEPT !.employee_data = IF Len(l.employees) > 0 THEN 1 ELSE 0]
              ELSE gui
    /\ UNCHANGED payroll

\* DynamicPayrollProcessor.process_payroll_to_pdfs(csv_filename,
\* withholding_placement): it returns after a detect_periods that fails
process_payroll_to_pdfs(file, withholding_placement, use_template, tie_up) ==
    /\ \E d \in {DetectLoop(file, 1, merged_headers)} :
           IF d.result # "True"
           THEN RunEndsAtDetect("process_payroll_to_pdfs", file, d)
           ELSE \E l \in {LoadLoop(file, 1, d.periods, store, <<>>)} :
                    RunLoads("process_payroll_to_pdfs", file, d, l,
                             withholding_placement, use_template, tie_up)
    /\ UNCHANGED <<looked_up, number, mailing>>
    /\ UNCHANGED mail_vars

\* DynamicPayrollGUIGenerator.process_payroll on self.current_file: a
\* detect_periods that returns False is logged and the run goes on; one
\* that raises ends the run in the handler's except
process_payroll(file, withholding_placement, use_template, tie_up) ==
    /\ \E d \in {DetectLoop(file, 1, merged_headers)} :
           IF d.result = "NameError"
           THEN RunEndsAtDetect("process_payroll", file, d)
           ELSE \E l \in {LoadLoop(file, 1, d.periods, store, <<>>)} :
                    RunLoads("process_payroll", file, d, l,
                             withholding_placement, use_template, tie_up)
    /\ UNCHANGED <<looked_up, number, mailing>>
    /\ UNCHANGED mail_vars

\* the populate_employee_tree that process_payroll queued with root.after
populate_queued ==
    /\ run.queued
    /\ gui' = [populate_employee_tree(gui, Len(periods)) EXCEPT !.last = "populate_employee_tree"]
    /\ run' = [run EXCEPT !.queued = FALSE]
    /\ UNCHANGED <<periods, employees, merged_headers, store, last_call, loaded_file,
                   detect_result, load_result, encodings_tried, payroll, slip,
                   looked_up, number, mailing>>
    /\ UNCHANGED mail_vars

\* the CSV files the runs are made on, of one data row at most
RunFiles ==
    FilesOf(TRUE, PlainHead, PlainRows, 1)
    \cup FilesOf(TRUE, NoPeriodHead, NoPeriodRows, 1)
    \cup FilesOf(TRUE, NoPerHourHead, NoPerHourRows, 1)
    \cup BlankFiles

\* the renderers: the template with a tie rounded up or down, and ReportLab
Renderers == {<<TRUE, TRUE>>, <<TRUE, FALSE>>, <<FALSE, FALSE>>}

ProcessToPdfsAny ==
    \E file \in RunFiles, pl \in Placements, how \in Renderers :
        process_payroll_to_pdfs(file, pl, how[1], how[2])

ProcessPayrollAny ==
    \E file \in RunFiles, pl \in Placements, how \in Renderers :
        process_payroll(file, pl, how[1], how[2])

NextRun == ProcessToPdfsAny \/ ProcessPayrollAny \/ populate_queued

SpecRun == Init /\ [][NextRun]_vars

-----------------------------------------------------------------------------
(* The email buttons of the window.  _email_payslips starts a daemon       *)
(* thread that runs _do_email_payslips, and with it send_all_payslips on   *)
(* the window's processor; the threads share the processor's ledger, the   *)
(* address book and emails.csv.  A thread's steps are the start of         *)
(* send_all_payslips, one iteration of its loop, and its end.  Every PDF   *)
(* is produced, the mailer module is there and Mailer.send succeeds.       *)

MaxBatches == 2

\* the thread a press of a button starts; beside are the threads that have
\* not ended at that moment, sent the employees it called Mailer.send for
Thread(real_send, beside) ==
    [real_send |-> real_send, pc |-> "start", idx |-> 1, email_map |-> <<>>,
     results |-> <<>>, sent |-> {}, beside |-> beside]

\* the threads that have not ended
Running(threads) == {t \in 1..Len(threads) : threads[t].pc # "done"}

\* DynamicPayrollGUIGenerator._email_payslips(real_send)
_email_payslips(real_send) ==
    /\ Len(mailing) < MaxBatches
    /\ mailing' = Append(mailing, Thread(real_send, Running(mailing)))
    /\ UNCHANGED <<periods, employees, merged_headers, store, last_call, loaded_file,
                   detect_result, load_result, encodings_tried, payroll, slip,
                   looked_up, number, gui, run>>
    /\ UNCHANGED mail_vars

\* send_all_payslips up to its loop, in thread t: the address book applied
\* to the ledger, and emails.csv read when an email is missing
BatchStarts(t) ==
    /\ mailing[t].pc = "start"
    /\ employees' = apply_to_employees(store, employees)
    /\ mailing' = [mailing EXCEPT
                      ![t].pc = "loop",
                      ![t].email_map = IF MissingAny(employees') THEN emails_csv
                                       ELSE <<>>]
    /\ UNCHANGED <<periods, merged_headers, store, last_call, loaded_file,
                   detect_result, load_result, encodings_tried, payroll, slip,
                   looked_up, number, gui, run>>
    /\ UNCHANGED mail_vars

\* one iteration of the loop of send_all_payslips in thread t
BatchSends(t) ==
    /\ mailing[t].pc = "loop"
    /\ mailing[t].idx <= Len(employees)
    /\ \E out \in {SendStep([employees |-> SubSeq(employees, 1, mailing[t].idx - 1),
                              table |-> store, results |-> mailing[t].results,
                              mail_calls |-> mail_calls],
                             employees[mailing[t].idx], mailing[t].email_map,
                             mailing[t].idx,
                             Batch(Len(employees), ~mailing[t].real_send, TRUE,
                                   0, "False", 0))} :
           /\ employees' = out.employees
                              \o SubSeq(employees, mailing[t].idx + 1, Len(employees))
           /\ store' = out.table
           /\ mail_calls' = out.mail_calls
           /\ mailing' = [mailing EXCEPT
                             ![t].idx = @ + 1,
                             ![t].results = out.results,
                             ![t].sent = IF Len(out.mail_calls) > Len(mail_calls)
                                         THEN @ \cup {mailing[t].idx} ELSE @]
    /\ UNCHANGED <<periods, merged_headers, last_call, loaded_file, detect_result,
                   load_result, encodings_tried, payroll, slip, looked_up, number,
                   gui, run, results, emails_csv, batch>>

\* the end of send_all_payslips in thread t: emails.csv exported, and the
\* results returned to _do_email_payslips
BatchEnds(t) ==
    /\ mailing[t].pc = "loop"
    /\ mailing[t].idx > Len(employees)
    /\ emails_csv' = ExportToCsv(store)
    /\ results' = mailing[t].results
    /\ last_call' = "send"
    /\ mailing' = [mailing EXCEPT ![t].pc = "done"]
    /\ UNCHANGED <<periods, employees, merged_headers, store, loaded_file,
                   detect_result, load_result, encodings_tried, payroll, slip,
                   looked_up, number, gui, run, mail_calls, batch>>

EmailPayslipsAny == \E real_send \in BOOLEAN : _email_payslips(real_send)

BatchStartsAny == \E t \in 1..Len(mailing) : BatchStarts(t)

BatchSendsAny == \E t \in 1..Len(mailing) : BatchSends(t)

BatchEndsAny == \E t \in 1..Len(mailing) : BatchEnds(t)

NextThreads == EmailPayslipsAny \/ BatchStartsAny \/ BatchSendsAny \/ BatchEndsAny

SpecThreads == InitMail /\ [][NextThreads]_vars

-----------------------------------------------------------------------------
(* Properties of the numeric normalizer                                    *)

\* the text with only its digits, dots and minus signs kept
Cleaned(text) == KeepChars(NumericChars, text, 1)

\* u is a decimal numeral: an optional minus sign, then digits with at most
\* one dot among them (at position d; 0 when there is none), and at least
\* one digit
IsNumeral(u) ==
    \E k \in 0..1, d \in 0..Len(u) :
        /\ k = 1 => Len(u) >= 1 /\ Char(u, 1) = "-"
        /\ d = 0 \/ d > k
        /\ \A j \in (k + 1)..Len(u) :
              IF j = d THEN Char(u, j) = "." ELSE IsDigit(Char(u, j))
        /\ Len(u) - k - (IF d = 0 THEN 0 ELSE 1) >= 1

\* the arguments the default is owed for
Malformed(arg) ==
    \/ arg.none
    \/ Strip(arg.val) \in {"", "-", EN_DASH, EM_DASH}
    \/ Cleaned(arg.val) = ""
    \/ ~IsNumeral(Cleaned(arg.val))

\* C17: safe_float and parse_percent return the caller's default, unchanged,
\* for None, the empty text, a lone dash, and every text whose cleaned form
\* (digits, dots and minus signs) is empty or is not a number; so
\* parse_percent of the empty text with default 0.05 is 0.05
C17_MalformedYieldsDefault ==
    number.fn \in {"safe_float", "parse_percent"} /\ Malformed(number.arg) =>
        number.result = number.default

\* parse_percent('', default=0.05) has returned 0.05
C17_Witness ==
    /\ number.fn = "parse_percent"
    /\ number.arg = Text("")
    /\ number.default = 5
    /\ number.result = 5

-----------------------------------------------------------------------------
(* Properties of the preview's paging                                      *)

\* C18: in paging mode (show_all_columns off, the tree's xview as wide as
\* 1) with a CSV loaded into the preview, pan_xview(0.25) from offset 0
\* changes period_view_offset whenever the period columns are more than
\* period_view_window
C18_PanChangesOffset ==
    /\ gui.last = "pan_xview"
    /\ gui.delta_fraction = 25
    /\ ~gui.show_all_columns
    /\ gui.width_is_1
    /\ gui.employee_data > 0
    /\ gui.before_offset = 0
    /\ Len(gui.all_period_ids) > gui.period_view_window
    => gui.period_view_offset # gui.before_offset

-----------------------------------------------------------------------------
(* Properties of send_all_payslips                                         *)

Statuses == {"sent", "dry_run", "skipped:no_email", "skipped:no_pdf", "error"}

\* the employee has none of the three emails
WithoutEmail(emp) == emp.email = "" /\ emp.personal_email = "" /\ emp.work_email = ""

\* the status and the error the batch b owes the n-th employee emp, as the
\* batch has left it
StatusOwed(emp, n, b) ==
    IF b.pdf[n] \in {"False", "raises"}
    THEN [status |-> "skipped:no_pdf", error |-> "pdf_failed"]
    ELSE IF WithoutEmail(emp) THEN [status |-> "skipped:no_email", error |-> "no_recipient"]
    ELSE IF b.dry_run \/ ~b.mailer THEN [status |-> "dry_run", error |-> ""]
    ELSE IF b.transport[n] = "sent" THEN [status |-> "sent", error |-> ""]
    ELSE [status |-> "error", error |-> b.transport[n]]

\* C15: send_all_payslips returns one result for each employee of the ledger,
\* in the ledger's order, with a status among sent, dry_run, skipped:no_email,
\* skipped:no_pdf and error; a PDF that fails is recorded on its employee as
\* skipped:no_pdf and a transport exception as error with its message, and
\* the employees after it are processed all the same
C15_OneResultPerEmployee ==
    last_call = "send" =>
        /\ Len(results) = Len(employees)
        /\ \A n \in 1..Len(results) :
               /\ results[n].seq = employees[n].seq
               /\ results[n].name = employees[n].name
               /\ results[n].status \in Statuses
               /\ results[n].status = StatusOwed(employees[n], n, batch).status
               /\ results[n].error = StatusOwed(employees[n], n, batch).error

\* a real run in which producing the first employee's PDF raised and the
\* send to the second raised: both are on record, each on its employee
C15_Witness ==
    /\ last_call = "send"
    /\ ~batch.dry_run
    /\ Len(results) = 2
    /\ batch.pdf[1] = "raises"
    /\ results[1].status = "skipped:no_pdf"
    /\ results[2].status = "error"
    /\ results[2].error = "SMTP error"

\* the status of a dry run for the status of the real run
DryStatus(status) == IF status \in {"sent", "error"} THEN "dry_run" ELSE status

\* what a real run of the batch b makes of what b began with
RealRun(b) ==
    SendAll(b.before.employees, b.before.store, b.before.emails_csv,
            [dry_run |-> FALSE, mailer |-> b.mailer, pdf |-> b.pdf,
             transport |-> b.transport])

\* the results, the ledger, the address book and emails.csv are those of the
\* real run but for the statuses, and the mail transport was not called
AsRealRun(real, dry_results, dry_employees, dry_table, dry_csv, dry_calls) ==
    /\ dry_calls = <<>>
    /\ dry_employees = real.employees
    /\ dry_table = real.table
    /\ dry_csv = ExportToCsv(real.table)
    /\ Len(dry_results) = Len(real.results)
    /\ \A n \in 1..Len(dry_results) :
           /\ dry_results[n].email = real.results[n].email
           /\ dry_results[n].status = DryStatus(real.results[n].status)

\* C16: a dry run of send_all_payslips never calls Mailer.send; it finds the
\* recipients, attaches them to the ledger and remembers them in the address
\* book exactly as the real run does, and every employee with a PDF and a
\* recipient has the status dry_run
C16_DryRunSendsNothing ==
    last_call = "send" /\ batch.dry_run =>
        AsRealRun(RealRun(batch), results, employees, store, emails_csv, mail_calls)

\* a dry run over two employees with PDFs, whose recipients come from the
\* ledger and from emails.csv: both are remembered, none is sent to
C16_Witness ==
    /\ last_call = "send"
    /\ batch.dry_run
    /\ Len(results) = 2
    /\ results[1].status = "dry_run"
    /\ results[2].status = "dry_run"
    /\ results[2].email = "bob@csv.org"
    /\ Len(store) = 2
    /\ mail_calls = <<>>

-----------------------------------------------------------------------------
(* Properties of the address book                                          *)

\* the positions in the table of the entries that one of the keys supplied
\* matches
Matching(table, who) ==
    {n \in 1..Len(table) :
        \/ _clean(who.seq) # "" /\ table[n].seq = _clean(who.seq)
        \/ _clean(who.account_no) # "" /\ table[n].account_no = _clean(who.account_no)
        \/ _clean_lower(who.name) # "" /\ table[n].name_key = _clean_lower(who.name)}

\* the entry updated last among those at the positions hits: the table is
\* kept in the order of last_updated
LastUpdated(table, hits) == table[CHOOSE n \in hits : \A m \in hits : n >= m]

\* C14: when the keys given to lookup match different entries of the address
\* book, the email returned is that of the matching entry updated last
C14_LookupReturnsLastUpdated ==
    last_call = "lookup" /\ Cardinality(Matching(store, looked_up)) > 1 =>
        looked_up.email = LastUpdated(store, Matching(store, looked_up)).email

-----------------------------------------------------------------------------
(* Properties of load_employee_data                                        *)

\* the data rows of a file: the rows after the header row the load settles on
DataRowsOf(file) == HeaderOf[file].data_rows

\* the 0-based position of the sequence column of a file
SeqColumnOf(file) == HeaderOf[file].cols.seq_idx

\* the row has a sequence cell, and it consists only of digits
HasDigitSeq(row, seq) ==
    /\ seq < Len(row)
    /\ LET text == Strip(row[seq + 1])
       IN  Len(text) > 0 /\ \A i \in 1..Len(text) : Char(text, i) \in Digits

\* the data rows with a digit-only sequence cell, in file order
ValidRows(file) ==
    SelectSeq(DataRowsOf(file), LAMBDA row : HasDigitSeq(row, SeqColumnOf(file)))

\* the 0-based position of the first of the headers at the positions hits,
\* or NoCol when there is none
FirstColumn(hits) ==
    IF hits = {} THEN NoCol
    ELSE (CHOOSE i \in hits : \A j \in hits : i <= j) - 1

\* a header of the net amount earned: it holds "net", "amount" and "earned"
IsNetAmountEarned(header) ==
    /\ Contains(_norm(header), "net")
    /\ Contains(_norm(header), "amount")
    /\ Contains(_norm(header), "earned")

\* a header of the amount earned: it holds "amount" and "earned", and is not
\* a header of the net amount earned
IsAmountEarned(header) ==
    /\ Contains(_norm(header), "amount")
    /\ Contains(_norm(header), "earned")
    /\ ~IsNetAmountEarned(header)

\* the 0-based position of the file's amount earned column, or NoCol
AmountEarnedColumn(file) ==
    FirstColumn({i \in 1..Len(HeaderOf[file].headers) :
                     IsAmountEarned(HeaderOf[file].headers[i])})

\* the 0-based position of the file's net amount earned column, or NoCol
NetAmountEarnedColumn(file) ==
    FirstColumn({i \in 1..Len(HeaderOf[file].headers) :
                     IsNetAmountEarned(HeaderOf[file].headers[i])})

\* the number in the row's amount earned cell, or None when the file has no
\* such column, the row ends before it, or the cell is blank or not a number
ExplicitAmountEarned(file, row) ==
    LET col == AmountEarnedColumn(file)
    IN  IF col # NoCol /\ col < Len(row) THEN ParseNumber(row[col + 1]) ELSE None

RECURSIVE PeriodGross(_, _, _, _)
\* hours * hourly_rate summed over the periods k.. whose column is in the row
PeriodGross(row, pds, k, rate) ==
    IF k > Len(pds) THEN 0
    ELSE (IF pds[k].column_index < Len(row)
          THEN Mul(safe_float(Strip(row[pds[k].column_index + 1]), 0), rate)
          ELSE 0)
         + PeriodGross(row, pds, k + 1, rate)

\* the row with the cell of 0-based column col blanked
BlankCell(row, col) ==
    Tuple([i \in 1..Len(row) |-> IF i = col + 1 THEN "" ELSE row[i]])

\* the ledger load_employee_data builds from the file's data rows when every
\* net amount earned cell is blank
LedgerWithoutNet(file, pds) ==
    LET h == HeaderOf[file]
    IN  RowLoop([emps |-> <<>>, calls |-> <<>>],
                Tuple([n \in 1..Len(h.data_rows) |->
                           BlankCell(h.data_rows[n], NetAmountEarnedColumn(file))]),
                1, pds, h.headers, h.cols).emps

\* C1: after a load, every accepted row whose amount earned cell holds a
\* number has that number as its total_gross, whatever periods were detected
C1_AmountEarnedIsGross ==
    (last_call = "load" /\ load_result = "True") =>
        \A n \in 1..Len(ValidRows(loaded_file)) :
            LET explicit == ExplicitAmountEarned(loaded_file, ValidRows(loaded_file)[n])
            IN  ~explicit.none =>
                    /\ n <= Len(employees)
                    /\ employees[n].total_gross = explicit.val

\* C2: after a load, every entry's total_gross is what it would be with the
\* net amount earned cells blank: the net column never changes total_gross
C2_NetNeverChangesGross ==
    (/\ last_call = "load"
     /\ load_result = "True"
     /\ NetAmountEarnedColumn(loaded_file) # NoCol) =>
        LET without == LedgerWithoutNet(loaded_file, periods)
        IN  /\ Len(without) = Len(employees)
            /\ \A n \in 1..Len(employees) :
                   employees[n].total_gross = without[n].total_gross

\* C3: after a load, every accepted row without an explicit amount earned
\* has total_gross equal to the sum of hours * hourly_rate over the detected
\* periods present in the row, which is 0 when no period was detected
C3_GrossIsPeriodSum ==
    (last_call = "load" /\ load_result = "True") =>
        \A n \in 1..Len(ValidRows(loaded_file)) :
            LET row == ValidRows(loaded_file)[n]
            IN  ExplicitAmountEarned(loaded_file, row).none =>
                    /\ n <= Len(employees)
                    /\ employees[n].total_gross =
                           PeriodGross(row, periods, 1, employees[n].hourly_rate)

\* C4: after a load, the ledger holds one entry for each data row after the
\* header row whose sequence cell exists and consists only of digits, in
\* file order, and none for any other row
C4_AcceptsDigitSeqRows ==
    load_result # "none" =>
        /\ Len(employees) = Len(ValidRows(loaded_file))
        /\ \A n \in 1..Len(employees) :
               employees[n].seq =
                   Strip(ValidRows(loaded_file)[n][SeqColumnOf(loaded_file) + 1])

\* a load that skipped a row with a blank sequence cell and accepted the row
\* after it
C4_Witness ==
    /\ load_result = "True"
    /\ Len(DataRowsOf(loaded_file)) = 2
    /\ ~HasDigitSeq(DataRowsOf(loaded_file)[1], SeqColumnOf(loaded_file))
    /\ Len(employees) = 1
    /\ employees[1].name = "Bob"

\* C9: detect_periods returns True or False and never raises, and when it
\* returns False it leaves self.periods empty
C9_DetectNeverRaises ==
    last_call = "detect" =>
        /\ detect_result \in {"True", "False"}
        /\ detect_result = "False" => periods = <<>>

\* the name cell of a row of the file, stripped ("" when the row ends before it)
NameOf(file, row) ==
    IF HeaderOf[file].cols.name_idx < Len(row)
    THEN Strip(row[HeaderOf[file].cols.name_idx + 1]) ELSE ""

\* C10: after a load, the ledger holds the entries built from that call's
\* CSV and no other: its n-th entry carries the sequence number and the name
\* of the file's n-th accepted row, and it is empty exactly when the load
\* returned False
C10_LedgerIsThisCallsRows ==
    load_result # "none" =>
        /\ load_result = "False" <=> employees = <<>>
        /\ load_result = "True" <=> ValidRows(loaded_file) # <<>>
        /\ Len(employees) <= Len(ValidRows(loaded_file))
        /\ \A n \in 1..Len(employees) :
               LET row == ValidRows(loaded_file)[n]
               IN  /\ employees[n].seq = Strip(row[SeqColumnOf(loaded_file) + 1])
                   /\ employees[n].name = NameOf(loaded_file, row)

\* a load that returned False after an earlier load had filled the address
\* book, and so the ledger
C10_Witness ==
    /\ load_result = "False"
    /\ employees = <<>>
    /\ store # <<>>

\* the k-th encoding opens the file and at least one of the rows read under
\* it has a digit-only sequence cell
YieldsRows(file, k) ==
    /\ Decodes(file, encodings_to_try[k])
    /\ ValidRows(file) # <<>>

\* C11: a load opens the encodings in the order utf-8, latin-1, cp1252,
\* iso-8859-1; it returns True at the first encoding under which a row is
\* accepted and opens none after it, and it returns False only after all four
\* encodings have yielded no accepted row
C11_FirstEncodingWithRowsWins ==
    load_result # "none" =>
        /\ Len(encodings_tried) \in 1..Len(encodings_to_try)
        /\ encodings_tried = SubSeq(encodings_to_try, 1, Len(encodings_tried))
        /\ \A k \in 1..(Len(encodings_tried) - 1) : ~YieldsRows(loaded_file, k)
        /\ load_result = "True" =>
               /\ YieldsRows(loaded_file, Len(encodings_tried))
               /\ employees # <<>>
        /\ load_result = "False" =>
               /\ encodings_tried = encodings_to_try
               /\ ~YieldsRows(loaded_file, Len(encodings_to_try))

\* a load that utf-8 could not open and that returned True under latin-1,
\* leaving cp1252 and iso-8859-1 unopened
C11_Witness ==
    /\ load_result = "True"
    /\ encodings_tried = <<"utf-8", "latin-1">>
    /\ ~Decodes(loaded_file, "utf-8")
    /\ employees # <<>>

\* the 0-based positions of the header cells that match the period-header
\* pattern
PeriodColumns(headers) == {i - 1 : i \in {j \in 1..Len(headers) : _is_period_header(headers[j])}}

\* the merged headers the two methods read off the files, and none
HeaderLists == {<<>>} \cup {HeaderOf[file].headers : file \in Files}

PeriodColumnsOf == [headers \in HeaderLists |-> PeriodColumns(headers)]

\* the period list pds is in strictly increasing column_index order and holds
\* exactly one period for each matching cell of the headers
OnePeriodPerMatch(pds, headers) ==
    /\ \A k \in 1..(Len(pds) - 1) : pds[k].column_index < pds[k + 1].column_index
    /\ {pds[k].column_index : k \in 1..Len(pds)} = PeriodColumnsOf[headers]

BeforeApply == RowsOf[loaded_file, periods].emps

\* C13: apply_to_employees changes no entry whose email is non-empty, whatever
\* the address book holds, and of an entry whose email is empty it changes
\* nothing but the email
C13_ApplyKeepsPresentEmails ==
    last_call = "load" /\ load_result = "True" =>
        /\ Len(employees) = Len(BeforeApply)
        /\ \A n \in 1..Len(employees) :
               IF BeforeApply[n].email # ""
               THEN employees[n] = BeforeApply[n]
               ELSE employees[n] = [BeforeApply[n] EXCEPT !.email = employees[n].email]

\* a loaded entry that has kept its own email although the address book
\* answers its identity with another one
C13_Witness ==
    /\ last_call = "load"
    /\ load_result = "True"
    /\ employees[1].email # ""
    /\ lookup(store, employees[1].seq, employees[1].account_no, employees[1].name)
           \notin {"", employees[1].email}

\* C19: after a load, every entry has hourly_rate >= 0, whatever text the
\* rate cell holds, and no period's amount has the opposite sign of its hours
C19_RateNeverNegative ==
    (last_call = "load" /\ load_result = "True") =>
        \A n \in 1..Len(employees) :
            /\ employees[n].hourly_rate >= 0
            /\ \A k \in 1..Len(employees[n].periods) :
                   employees[n].periods[k].value.hours
                       * employees[n].periods[k].value.amount >= 0

\* the adjustment the row is owed by the priority: the adjustment amount
\* cell when it is filled, else adjustment hours x hourly_rate when that is
\* not 0, else total_gross - net_amount_earned when a net amount was read
\* and the two differ, else 0
AdjustmentOwed(cols, row, emp) ==
    LET hours == IF HasValue(row, cols.idx_adj_hours)
                 THEN safe_float(Cell(row, cols.idx_adj_hours), 0) ELSE 0
        calc  == Mul(hours, emp.hourly_rate)
        diff  == emp.total_gross - emp.net_amount_earned.val
    IN  IF HasValue(row, cols.idx_adj_amount)
        THEN safe_float(Cell(row, cols.idx_adj_amount), 0)
        ELSE IF calc # 0 THEN calc
        ELSE IF ~emp.net_amount_earned.none /\ diff # 0 THEN diff
        ELSE 0

\* C20: after a load, every accepted row has the adjustment_amount the
\* priority gives it: the explicit cell (an explicit 0 included), else
\* hours x rate, and total_gross - net_amount_earned only when there is
\* neither and the difference is more than 1e-6
C20_AdjustmentPriority ==
    (last_call = "load" /\ load_result = "True") =>
        \A n \in 1..Len(ValidRows(loaded_file)) :
            /\ n <= Len(employees)
            /\ employees[n].adjustment_amount =
                   AdjustmentOwed(HeaderOf[loaded_file].cols,
                                  ValidRows(loaded_file)[n], employees[n])

\* d[key] of a dict kept as a sequence of items, key being one of its keys
ItemAt(items, key) == items[CHOOSE n \in 1..Len(items) : items[n].key = key].value

\* key in d
HasKey(items, key) == \E n \in 1..Len(items) : items[n].key = key

\* the {hours, amount, raw} record of the period's own cell in the row
OwnRecord(period, row, emp) ==
    LET raw_val == Strip(Cell(row, period.column_index))
        hours   == safe_float(raw_val, 0)
    IN  [hours |-> hours, amount |-> Mul(hours, emp.hourly_rate), raw |-> raw_val]

\* C25: after a load, the entry of every accepted row holds, for every
\* period whose column is within the row, that period's own record under
\* the period's canonical name and under its display name
C25_PeriodUnderBothNames ==
    (last_call = "load" /\ load_result = "True") =>
        \A n \in 1..Len(ValidRows(loaded_file)) :
            /\ n <= Len(employees)
            /\ \A k \in 1..Len(periods) :
                   periods[k].column_index < Len(ValidRows(loaded_file)[n]) =>
                       LET own == OwnRecord(periods[k], ValidRows(loaded_file)[n],
                                            employees[n])
                           Under(key) == /\ HasKey(employees[n].periods, key)
                                         /\ ItemAt(employees[n].periods, key) = own
                       IN  /\ Under(periods[k].name)
                           /\ periods[k].display_name # "" =>
                                  Under(periods[k].display_name)

\* C26: a processing run whose detect_periods did not return True has made
\* no attempt at load_employee_data and has asked for no payslip, whether
\* made by process_payroll_to_pdfs or by the window's process_payroll
C26_RunStopsWhenDetectionFails ==
    (run.by # "none" /\ run.detect_result # "True") =>
        /\ run.load_result = "none"
        /\ run.payslips = 0

\* C27: whatever the address book holds, once an email is remembered for an
\* employee, a lookup with that employee's sequence number, account number
\* and name returns that email, lower-cased
C27_UpsertLastWriteWins ==
    [][\A employee \in Remembered, email \in Emails :
           RememberFromEmployee(employee, email) =>
               lookup(store', employee.seq, employee.account_no, employee.name)
                   = _clean_email(email)]_vars

\* C29: no thread of _email_payslips was started beside one that had not
\* ended, so no two batches are in progress at once and no employee is sent
\* a payslip by two batches that ran side by side
C29_OneBatchAtATime ==
    \A u \in 1..Len(mailing) :
        /\ mailing[u].beside = {}
        /\ \A t \in mailing[u].beside : mailing[t].sent \cap mailing[u].sent = {}

\* C30: in what send_all_payslips returns, a status dry_run appears only
\* when the batch was a dry run; in a real send every result with a PDF and
\* a recipient has status sent or error, with or without the mailer module
C30_DryRunOnlyWhenAsked ==
    (last_call = "send" /\ ~batch.dry_run) =>
        \A n \in 1..Len(results) :
            /\ results[n].status # "dry_run"
            /\ results[n].email # "" => results[n].status \in {"sent", "error"}

\* no period of pds has its column within the row
BeyondEveryPeriod(row, pds) == \A k \in 1..Len(pds) : pds[k].column_index >= Len(row)

\* the entry of a row whose summary and tax columns are read and whose
\* primary email is resolved although no period cell is
SummaryOnly(row, cols) ==
    SummaryFields([employee |-> NewEmployee(row, cols), calls |-> <<>>], row, cols).employee

\* C21: after a load, every accepted row that no detected period reaches
\* (all the rows when no period was detected) has an entry with the period
\* gross 0 whose summary and tax fields are those of its cells and whose
\* email is its primary email, which the address book then holds
C21_SummaryReadWithoutPeriods ==
    (last_call = "load" /\ load_result = "True") =>
        \A n \in 1..Len(ValidRows(loaded_file)) :
            LET row  == ValidRows(loaded_file)[n]
                owed == SummaryOnly(row, HeaderOf[loaded_file].cols)
            IN  BeyondEveryPeriod(row, periods) =>
                    /\ n <= Len(employees)
                    /\ [employees[n] EXCEPT !.email = ""] = [owed EXCEPT !.email = ""]
                    /\ owed.email # "" =>
                           /\ employees[n].email = owed.email
                           /\ \E m \in 1..Len(store) :
                                  store[m].email = _clean_email(owed.email)

\* C22: after a load that returns True, every period's column_index is the
\* column of a period header of the file loaded, and its name is that
\* header's, whatever was detected or loaded before
C22_PeriodsOfLoadedFile ==
    (last_call = "load" /\ load_result = "True") =>
        \A k \in 1..Len(periods) :
            /\ periods[k].column_index \in PeriodColumnsOf[HeaderOf[loaded_file].headers]
            /\ periods[k].name =
                   _normalize_header_text(
                       Cell(HeaderOf[loaded_file].headers, periods[k].column_index))

\* the row has at least two cells that match the period-header pattern and
\* at least four populated cells
LooksLikeHeader(row) ==
    /\ Cardinality({j \in 1..Len(row) : _is_period_header(row[j])}) >= 2
    /\ Cardinality({j \in 1..Len(row) : Strip(row[j]) # ""}) >= 4

\* the 0-based index of the first such row of the file
FallbackRow(file) ==
    (CHOOSE i \in 1..Len(file.rows) :
        /\ LooksLikeHeader(file.rows[i])
        /\ \A j \in 1..(i - 1) : ~LooksLikeHeader(file.rows[j])) - 1

\* the files without a row that mentions 'per hour' and with such a row
FallbackFiles ==
    {file \in Files :
        /\ \A i \in 1..Len(file.rows) : ~HasPerHour(file.rows[i])
        /\ \E i \in 1..Len(file.rows) : LooksLikeHeader(file.rows[i])}

\* the rows below the fallback row whose first cell consists only of digits
RowsBelowFallback(file) ==
    SelectSeq(SubSeq(file.rows, FallbackRow(file) + 2, Len(file.rows)),
              LAMBDA row : HasDigitSeq(row, 0))

\* C23: on a file without a 'per hour' row, detect_periods and
\* load_employee_data both take the first row with at least two period
\* headers and at least four populated cells as the header row and go on
\* with it: the detection returns True with that row's headers, and the load
\* builds an entry for every valid row below it
C23_FallbackHeaderRow ==
    [][\A file \in FallbackFiles :
           /\ detect_periods(file) =>
                  /\ detect_result' = "True"
                  /\ merged_headers' = MergeHeaders(file.rows, FallbackRow(file))
           /\ load_employee_data(file) /\ RowsBelowFallback(file) # <<>> =>
                  /\ load_result' = "True"
                  /\ Len(employees') = Len(RowsBelowFallback(file))]_vars

\* the 0-based position of the left-most header whose lowercase-alphanumeric
\* projection contains every fragment of parts, NoCol when there is none
LeftMost(headers, parts) ==
    FirstColumn({i \in 1..Len(headers) :
                     \A k \in 1..Len(parts) : Contains(_norm(headers[i]), _norm(parts[k]))})

\* the first of the columns a and b that was found
FoundOr(a, b) == IF a # NoCol THEN a ELSE b

\* C24: after a load, every column the finder was asked for is the
\* left-most header of the file that contains all the fragments, or None;
\* twin or empty headers change nothing, and column 0 counts as found
C24_FinderReturnsLeftMost ==
    (last_call = "load" /\ load_result = "True") =>
        LET h == HeaderOf[loaded_file].headers
            c == HeaderOf[loaded_file].cols
        IN  /\ c.idx_amt_earned = LeftMost(h, <<"amount", "earned">>)
            /\ c.idx_net_amt = LeftMost(h, <<"net", "amount", "earned">>)
            /\ c.idx_tax_rate = LeftMost(h, <<"w", "tax", "rate">>)
            /\ c.idx_wh_tax = LeftMost(h, <<"holding", "tax">>)
            /\ c.idx_p_rate = LeftMost(h, <<"p", "tax", "rate">>)
            /\ c.idx_percent = LeftMost(h, <<"percent", "tax">>)
            /\ c.idx_total_ded = LeftMost(h, <<"total", "tax", "deduct">>)
            /\ c.idx_net_recv = LeftMost(h, <<"net", "amount", "received">>)
            /\ c.idx_adj_hours = LeftMost(h, <<"adjust", "hour">>)
            /\ c.idx_adj_amount =
                   FoundOr(LeftMost(h, <<"adjust", "amount">>),
                   FoundOr(LeftMost(h, <<"adjust", "add", "tax">>),
                   FoundOr(LeftMost(h, <<"addl", "tax">>),
                           LeftMost(h, <<"adjustment", "tax">>))))
            /\ c.idx_email = LeftMost(h, <<"email">>)
            /\ c.idx_work_email = LeftMost(h, <<"work", "email">>)
            /\ c.idx_personal_email = LeftMost(h, <<"personal", "email">>)

-----------------------------------------------------------------------------
(* Properties of the payroll figures                                       *)

\* C5: calculate_employee_payroll returns sub_total = total_gross -
\* adjustment_amount, total_deductions = total_gross * (tax_rate +
\* withholding_rate + p_tax_rate) and net_pay = sub_total - total_deductions;
\* 1000.00, 100.00, 10%, 5% and 2% give 900.00, 170.00 and 730.00
C5_ComputeFormulas ==
    payroll.of # 0 =>
        LET e == employees[payroll.of]
        IN  /\ payroll.sub_total = e.total_gross - e.adjustment_amount
            /\ payroll.total_deductions =
                   (e.total_gross * e.tax_rate) \div Scale
                   + (e.total_gross * e.withholding_rate) \div Scale
                   + (e.total_gross * e.p_tax_rate) \div Scale
            /\ payroll.net_pay = payroll.sub_total - payroll.total_deductions
            /\ (/\ e.total_gross = 100000 /\ e.adjustment_amount = 10000
                /\ e.tax_rate = 10 /\ e.withholding_rate = 5 /\ e.p_tax_rate = 2) =>
                   /\ payroll.sub_total = 90000
                   /\ payroll.total_deductions = 17000
                   /\ payroll.net_pay = 73000

\* the payroll of the entry with 1000.00, 100.00, 10%, 5% and 2%
C5_Witness ==
    /\ payroll.of # 0
    /\ employees[payroll.of].total_gross = 100000
    /\ employees[payroll.of].adjustment_amount = 10000
    /\ employees[payroll.of].tax_rate = 10
    /\ employees[payroll.of].withholding_rate = 5
    /\ employees[payroll.of].p_tax_rate = 2
    /\ payroll.net_pay = 73000

\* C6: when the entry carries an absolute withholding or percentage tax
\* amount, calculate_employee_payroll uses it in place of total_gross times
\* the rate, in total_deductions and in net_pay
C6_AbsoluteAmountsInCompute ==
    payroll.of # 0 =>
        LET e == employees[payroll.of]
            withholding == IF e.withholding_amount # 0 THEN e.withholding_amount
                           ELSE Mul(e.total_gross, e.withholding_rate)
            p_tax == IF e.percent_tax # 0 THEN e.percent_tax
                     ELSE Mul(e.total_gross, e.p_tax_rate)
            total_deductions == Mul(e.total_gross, e.tax_rate) + withholding + p_tax
        IN  /\ payroll.total_deductions = total_deductions
            /\ payroll.net_pay = payroll.sub_total - total_deductions

\* C7: a payslip rendered with placement "both" carries half of the
\* withholding and of the percentage tax on each sub-total, with "15" all of
\* both on the 15th and nothing on the 30th, with "30" the reverse, on the
\* template path and on the ReportLab path
C7_PlacementSplit ==
    slip.of # 0 =>
        LET f == slip.figures
        IN  CASE f.placement = "both" ->
                   /\ 2 * f.w_15 = f.w_amt /\ 2 * f.w_30 = f.w_amt
                   /\ 2 * f.p_15 = f.p_amt /\ 2 * f.p_30 = f.p_amt
              [] f.placement = "15" ->
                   /\ f.w_15 = f.w_amt /\ f.w_30 = 0
                   /\ f.p_15 = f.p_amt /\ f.p_30 = 0
                   /\ f.total_15 = f.w_amt + f.p_amt /\ f.total_30 = 0
              [] f.placement = "30" ->
                   /\ f.w_30 = f.w_amt /\ f.w_15 = 0
                   /\ f.p_30 = f.p_amt /\ f.p_15 = 0
                   /\ f.total_30 = f.w_amt + f.p_amt /\ f.total_15 = 0

\* a ReportLab payslip with a withholding and a percentage tax, all of both
\* on the 15th
C7_Witness ==
    /\ slip.of # 0
    /\ slip.figures.path = "reportlab"
    /\ slip.figures.placement = "15"
    /\ slip.figures.w_amt > 0
    /\ slip.figures.p_amt > 0
    /\ slip.figures.total_15 = slip.figures.w_amt + slip.figures.p_amt

\* C28: the gross, the total deductions and the net pay of a rendered
\* payslip are the entry's total_gross and the total_deductions and net_pay
\* calculate_employee_payroll returns for the entry (net_pay being
\* total_gross - adjustment_amount - total_deductions), on both paths
C28_SlipAgreesWithPayroll ==
    slip.of # 0 =>
        LET e == employees[slip.of]
            p == calculate_employee_payroll(e)
        IN  /\ slip.figures.gross = Halves(e.total_gross)
            /\ slip.figures.total_deductions = Halves(p.total_deductions)
            /\ slip.figures.net_pay = Halves(p.net_pay)
            /\ p.net_pay = e.total_gross - e.adjustment_amount - p.total_deductions

\* C8: a payslip's total_deductions and net_pay are those of the same entry
\* rendered on the same path with any other placement, and its two
\* sub-totals add up to its total_deductions
C8_PlacementKeepsTotals ==
    slip.of # 0 =>
        LET f == slip.figures
            Other(pl) == IF f.path = "template"
                         THEN ExcelFigures(periods, employees[slip.of], pl, slip.tie_up)
                         ELSE ReportLabFigures(employees[slip.of], pl)
        IN  /\ f.total_15 + f.total_30 = f.total_deductions
            /\ \A pl \in Placements :
                   /\ Other(pl).total_deductions = f.total_deductions
                   /\ Other(pl).net_pay = f.net_pay

====
